---- MODULE Spec2Model ----
(***************************************************************************)
(* Zip2Text: the job pipeline of zip2text_app (run_job and the stages it   *)
(* sequences: handle_zip_file, scan_for_images, perform_ocr_on_images,     *)
(* aggregate_text_results) and the events it emits through EventStreamer.  *)
(*                                                                         *)
(* A Python str is modelled as a sequence of one-character strings, so     *)
(* that sorting, extension matching and joining are computed on the        *)
(* characters.  Fixed literals that are never inspected character by       *)
(* character (messages, placeholders) are kept as whole fragments.         *)
(***************************************************************************)
EXTENDS Integers, Sequences, FiniteSets, TLC

\* ------------------------------------------------------------------------
\* Bounds
\* ------------------------------------------------------------------------

\* The largest number of members of an uploaded archive.
MaxFiles == 3

\* The largest number of pages handed to aggregate_text_results in SpecAgg.
MaxAggPages == 3

\* socketio.emit calls that raise, at most, per room.
MaxEmitFailures == 1

\* Socket.IO client events (connect, join, disconnect) handled, at most.
MaxRequests == 3

\* The largest number of members of an archive in SpecLive.
MaxLiveFiles == 1

\* ------------------------------------------------------------------------
\* Strings
\* ------------------------------------------------------------------------

Range(s) == {s[i] : i \in 1..Len(s)}

Digits == <<"0", "1", "2", "3", "4", "5", "6", "7", "8", "9">>

UpperLetters ==
    <<"A", "B", "C", "D", "E", "F", "G", "H", "I", "J", "K", "L", "M",
      "N", "O", "P", "Q", "R", "S", "T", "U", "V", "W", "X", "Y", "Z">>

LowerLetters ==
    <<"a", "b", "c", "d", "e", "f", "g", "h", "i", "j", "k", "l", "m",
      "n", "o", "p", "q", "r", "s", "t", "u", "v", "w", "x", "y", "z">>

IndexOf(s, c) == CHOOSE i \in 1..Len(s) : s[i] = c

IsDigit(c) == c \in Range(Digits)

\* The code point of a character: Python compares str values by code point.
Ord(c) ==
    IF c \in Range(Digits) THEN 47 + IndexOf(Digits, c)
    ELSE IF c \in Range(UpperLetters) THEN 64 + IndexOf(UpperLetters, c)
    ELSE IF c \in Range(LowerLetters) THEN 96 + IndexOf(LowerLetters, c)
    ELSE IF c = "." THEN 46
    ELSE IF c = "/" THEN 47
    ELSE 95   \* "_"

\* str.lower(), one character.
LowerChar(c) ==
    IF c \in Range(UpperLetters) THEN LowerLetters[IndexOf(UpperLetters, c)]
    ELSE c

\* str.lower().
Lower(s) == [i \in 1..Len(s) |-> LowerChar(s[i])]

\* a < b for two str values (lexicographic by code point); x and y are a
\* and b, evaluated once.
StrLess(a, b) ==
    \E x \in {a} : \E y \in {b} : \E i \in 1..(Len(x) + 1) :
        /\ i <= Len(y)
        /\ \A k \in 1..(i - 1) : x[k] = y[k]
        /\ (i = Len(x) + 1 \/ Ord(x[i]) < Ord(y[i]))

\* Inserts x into the ascending list s, after the elements not greater.
RECURSIVE InsertSorted(_, _)
InsertSorted(s, x) ==
    IF s = <<>> THEN <<x>>
    ELSE IF StrLess(x, Head(s)) THEN <<x>> \o s
    ELSE <<Head(s)>> \o InsertSorted(Tail(s), x)

\* list.sort() of a list of str: ascending by code point, stable.
RECURSIVE ListSort(_)
ListSort(s) ==
    IF s = <<>> THEN <<>>
    ELSE InsertSorted(ListSort(SubSeq(s, 1, Len(s) - 1)), s[Len(s)])

\* sep.join(parts).
RECURSIVE StrJoin(_, _)
StrJoin(sep, parts) ==
    IF parts = <<>> THEN <<>>
    ELSE IF Len(parts) = 1 THEN parts[1]
    ELSE parts[1] \o sep \o StrJoin(sep, Tail(parts))

\* The index of the last "." of a name, 0 when it has none.
LastDot(name) ==
    IF \E i \in 1..Len(name) : name[i] = "."
    THEN CHOOSE i \in 1..Len(name) :
             /\ name[i] = "."
             /\ \A k \in (i + 1)..Len(name) : name[k] # "."
    ELSE 0

\* os.path.splitext(filename)[1] of a name without separators: the text
\* from the last dot on, unless only dots precede that dot.
SplitextExt(name) ==
    LET d == LastDot(name) IN
    IF d > 0 /\ \E k \in 1..(d - 1) : name[k] # "."
    THEN SubSeq(name, d, Len(name))
    ELSE <<>>

\* os.path.join(a, b) for a relative b.
PathJoin(a, b) == a \o <<"/">> \o b

\* ------------------------------------------------------------------------
\* Program constants and the inputs of a run
\* ------------------------------------------------------------------------

\* Supported image formats as per the specification.
SUPPORTED_FORMATS ==
    { <<".", "j", "p", "g">>, <<".", "j", "p", "e", "g">>,
      <<".", "p", "n", "g">>, <<".", "w", "e", "b", "p">> }

\* The Severity enumeration: member name -> value.
Severity ==
    [INFO |-> "INFO", SUCCESS |-> "SUCCESS", WARNING |-> "WARNING",
     ERROR |-> "ERROR", DEBUG |-> "DEBUG"]

Jobs == {"job1", "job2"}

\* Socket.IO session ids (request.sid), one per client connection, and the
\* order in which the server hands them out.
Sids == {"sid1", "sid2"}

SidBefore(t, s) == t = "sid1" /\ s = "sid2"

\* The names tempfile.mkdtemp can give (the random part of the name).
DirIds == {"a", "b"}

\* The path of the directory mkdtemp(prefix="zip2text_") creates.
TmpDir(d) ==
    <<"/", "t", "m", "p", "/", "z", "i", "p", "2", "t", "e", "x", "t", "_", d>>

\* The archive members a run can meet: the directory and the name of the
\* member inside the archive, and the text printed on the page (what the
\* recognition service reads from the file).
Candidates ==
    << [dir |-> <<>>, name |-> <<"p", "a", "g", "e", "2", ".", "p", "n", "g">>,
        text |-> <<"T", "w", "o">>],
       [dir |-> <<>>, name |-> <<"p", "a", "g", "e", "1", "0", ".", "p", "n", "g">>,
        text |-> <<"T", "e", "n">>],
       [dir |-> <<>>, name |-> <<"P", "a", "g", "e", "2", ".", "p", "n", "g">>,
        text |-> <<"C", "a", "p">>],
       [dir |-> <<>>, name |-> <<"n", "o", "t", "e", "s", ".", "t", "x", "t">>,
        text |-> <<>>],
       [dir |-> <<>>, name |-> <<"c", ".", "J", "P", "E", "G">>,
        text |-> <<"J">>],
       [dir |-> <<"d">>, name |-> <<"a", ".", "w", "e", "b", "p">>,
        text |-> <<>>] >>

\* member.filename: the path of a member inside the archive.
MemberFilename(m) == IF m.dir = <<>> THEN m.name ELSE PathJoin(m.dir, m.name)

\* The members selected by a set of indices, in archive order.
RECURSIVE Pick(_, _)
Pick(idx, from) ==
    IF from > Len(Candidates) THEN <<>>
    ELSE IF from \in idx THEN <<Candidates[from]>> \o Pick(idx, from + 1)
    ELSE Pick(idx, from + 1)

MemberLists ==
    {Pick(idx, 1) : idx \in {s \in SUBSET (1..Len(Candidates)) : Cardinality(s) <= MaxFiles}}

\* The uploaded files: the path, whether the content is a ZIP container
\* (zipfile.is_zipfile), the members, and where the archive is corrupt:
\* 0 nowhere, k at member k, -1 in the central directory.
ZipPath == <<"u", ".", "z", "i", "p">>

TxtPath == <<"u", ".", "t", "x", "t">>

ZipFiles ==
    LET sound == {z \in [path : {ZipPath}, is_zip : {TRUE},
                         members : MemberLists, corrupt : 0..MaxFiles] :
                      z.corrupt <= Len(z.members)}
        nodir == {[path |-> ZipPath, is_zip |-> TRUE, members |-> <<>>, corrupt |-> -1]}
        nozip == [path : {ZipPath, TxtPath}, is_zip : {FALSE},
                  members : {<<>>}, corrupt : {0}]
    IN  sound \cup nodir \cup nozip

\* ------------------------------------------------------------------------
\* State
\* ------------------------------------------------------------------------

VARIABLES
    pc,               \* where each job's run_job stands
    zip_file,         \* run_job's zip_file_path: the uploaded file
    streamer,         \* whether run_job was given an EventStreamer
    extraction_dir,   \* handle_zip_file's local: the directory it created
    extracted_dir,    \* run_job's local: the directory handle_zip_file returned
    extracted,        \* handle_zip_file: how many members are extracted
    exc,              \* the exception propagating in the job, if any
    walked,           \* scan_for_images: the files os.walk has yielded
    found_images,     \* scan_for_images' local list
    skipped_count,    \* scan_for_images' local counter
    image_paths,      \* run_job's local: the list scan_for_images returned
    image_count,      \* run_job's local: the count scan_for_images returned
    ocr_i,            \* perform_ocr_on_images: pages done
    ocr_results,      \* the dict of outcomes, as (key, value) pairs in insertion order
    final_text,       \* run_job's local: what aggregate_text_results returned
    result,           \* what run_job returned
    published,        \* per job id (room): the events emit_event was called with
    capability_calls, \* per job: the pages document_text_detection was called for
    rmtree_log,       \* per job: the shutil.rmtree calls, who made them and how they ended
    faults,           \* per job: the failures of the environment the run met
    disk,             \* per directory name: whether it exists, and the files in it
    clock,            \* datetime.utcnow()
    sids,             \* per Socket.IO session id: unused, connected or disconnected
    rooms,            \* per session id: the rooms it joined through handle_join
    received,         \* per session id: the 'new_log' messages it was sent, in order
    emit_failed,      \* per room: how many socketio.emit calls raised
    requests          \* how many Socket.IO client events the server has handled

vars ==
    <<pc, zip_file, streamer, extraction_dir, extracted_dir, extracted, exc,
      walked, found_images, skipped_count, image_paths, image_count, ocr_i,
      ocr_results, final_text, result, published, capability_calls,
      rmtree_log, faults, disk, clock, sids, rooms, received, emit_failed,
      requests>>

\* The state of the Socket.IO server and of what it sent.
socketio == <<sids, rooms, received, emit_failed, requests>>

\* Python's None, where a directory name is expected.
None == "None"

\* No exception is propagating.
NoExc == [type |-> "None", text |-> <<>>]

\* The data argument left at its default.
NoData == [none |-> TRUE]

\* ------------------------------------------------------------------------
\* realtime/log_formatter.py, realtime/event_streamer.py
\* ------------------------------------------------------------------------

\* format_event as it would be without "if data is None: data = {}".
format_event_keeping_none(event_name, status, severity, message, data, now) ==
    [timestamp |-> now,
     event     |-> event_name,
     status    |-> status,
     severity  |-> Severity[severity],
     message   |-> message,
     data      |-> data]

\* format_event at time now.
format_event(event_name, status, severity, message, data, now) ==
    [timestamp |-> now,
     event     |-> event_name,
     status    |-> status,
     severity  |-> Severity[severity],
     message   |-> message,
     data      |-> IF data = NoData THEN <<>> ELSE data]

\* The arguments of one emit_event call.
Call(event_name, status, severity, message, data) ==
    [event_name |-> event_name, status |-> status, severity |-> severity,
     message |-> message, data |-> data]

\* The session ids in room j: those that joined it and are still connected.
Members(j) == {s \in Sids : sids[s] = "connected" /\ j \in rooms[s]}

\* The session ids that are connected, whatever rooms they are in.
Connected == {s \in Sids : sids[s] = "connected"}

\* A 'new_log' message as a session receives it, with the room it was
\* emitted to.
Message(j, payload) == [room |-> j, payload |-> payload]

\* The events of one emit_event call sequence, formatted one after another.
Payloads(calls) ==
    [k \in 1..Len(calls) |->
        format_event(calls[k].event_name, calls[k].status, calls[k].severity,
                     calls[k].message, calls[k].data, clock + k - 1)]

\* s with its elements in the opposite order.
Reverse(s) == [k \in 1..Len(s) |-> s[Len(s) + 1 - k]]

\* socketio.emit('new_log', payload, room=...) for each payload in turn, to
\* the sessions in to.  A call either sends its payload to all of them, or
\* raises, having sent it to some of them; the exception is caught in
\* emit_event and logged.
socketio_emit(j, payloads, to) ==
    LET n == Len(payloads) IN
    \E raised \in SUBSET (1..n) :
    \E got \in [1..n -> SUBSET to] :
        /\ emit_failed[j] + Cardinality(raised) <= MaxEmitFailures
        /\ \A k \in 1..n : k \notin raised => got[k] = to
        /\ received' =
               [s \in Sids |->
                   LET Sent(k) == s \in got[k]
                       ks == SelectSeq([k \in 1..n |-> k], Sent)
                   IN  received[s] \o [i \in 1..Len(ks) |-> Message(j, payloads[ks[i]])]]
        /\ emit_failed' = [emit_failed EXCEPT ![j] = @ + Cardinality(raised)]
        /\ UNCHANGED <<sids, rooms, requests>>

\* emit_event as it would be if the server sent the last payload first.
emit_event_lifo(j, calls) ==
    /\ published' = [published EXCEPT ![j] = @ \o Payloads(calls)]
    /\ socketio_emit(j, Reverse(Payloads(calls)), Members(j))
    /\ clock' = clock + Len(calls)

\* emit_event as it would be without room=job_id: every connected session
\* is sent the payload.
emit_event_to_all(j, calls) ==
    /\ published' = [published EXCEPT ![j] = @ \o Payloads(calls)]
    /\ socketio_emit(j, Payloads(calls), Connected)
    /\ clock' = clock + Len(calls)

\* emit_event as it would be without its try/except: the call whose
\* socketio.emit raises is the last one made at that point of the caller.
emit_event_uncaught(j, calls) ==
    \E m \in 1..Len(calls) : \E raises \in BOOLEAN :
        /\ ~raises => m = Len(calls)
        /\ raises => emit_failed[j] < MaxEmitFailures
        /\ published' = [published EXCEPT ![j] = @ \o SubSeq(Payloads(calls), 1, m)]
        /\ received' =
               [s \in Sids |->
                   IF s \in Members(j)
                   THEN received[s] \o
                        [i \in 1..(IF raises THEN m - 1 ELSE m) |->
                            Message(j, Payloads(calls)[i])]
                   ELSE received[s]]
        /\ emit_failed' = [emit_failed EXCEPT ![j] = IF raises THEN @ + 1 ELSE @]
        /\ clock' = clock + m
        /\ UNCHANGED <<sids, rooms, requests>>

\* EventStreamer.emit_event called for room j, once per element of calls:
\* each call formats its event and emits it to the room; it never raises.
emit_event(j, calls) ==
    \E payloads \in {Payloads(calls)} :
        /\ published' = [published EXCEPT ![j] = @ \o payloads]
        /\ socketio_emit(j, payloads, Members(j))
        /\ clock' = clock + Len(payloads)

\* ------------------------------------------------------------------------
\* Helpers of the pipeline
\* ------------------------------------------------------------------------

\* str(n) for n >= 0.
RECURSIVE IntToStr(_)
IntToStr(n) ==
    IF n < 10 THEN <<Digits[n + 1]>>
    ELSE IntToStr(n \div 10) \o <<Digits[(n % 10) + 1]>>

\* os.path.basename(path).
Basename(path) ==
    IF \E i \in 1..Len(path) : path[i] = "/"
    THEN LET s == CHOOSE i \in 1..Len(path) :
                      /\ path[i] = "/"
                      /\ \A k \in (i + 1)..Len(path) : path[k] # "/"
         IN  SubSeq(path, s + 1, Len(path))
    ELSE path

\* A check of the archive by the suffix of its name.
is_zipfile_by_name(z) == Lower(SplitextExt(Basename(z.path))) = <<".", "z", "i", "p">>

\* zipfile.is_zipfile: judged by the content of the file.
is_zipfile(z) == z.is_zip

\* The directory os.walk reports a staged file in.
WalkRoot(d, f) == IF f.dir = <<>> THEN TmpDir(d) ELSE PathJoin(TmpDir(d), f.dir)

\* full_path = os.path.join(root, filename).
FullPath(d, f) == PathJoin(WalkRoot(d, f), f.name)

\* The extension as it would be without .lower().
file_ext_case_sensitive(filename) == SplitextExt(filename)

\* file_ext = os.path.splitext(filename)[1].lower().
file_ext(filename) == Lower(SplitextExt(filename))

\* file_ext in SUPPORTED_FORMATS.
IsSupported(filename) == file_ext(filename) \in SUPPORTED_FORMATS

\* The end of the scan as it would be without found_images.sort(): the
\* list stays in the order of the walk.
WalkOrderKept(found) == found

\* found_images.sort().
SortFound(found) == ListSort(found)

\* key in dict.
DictHas(dict, key) == \E i \in 1..Len(dict) : dict[i][1] = key

\* dict[key], for a key the dict has.
DictGet(dict, key) == dict[CHOOSE i \in 1..Len(dict) : dict[i][1] = key][2]

\* dict[key] = value: a new key is appended, a known key keeps its place.
DictSet(dict, key, value) ==
    IF DictHas(dict, key)
    THEN [i \in 1..Len(dict) |-> IF dict[i][1] = key THEN <<key, value>> ELSE dict[i]]
    ELSE Append(dict, <<key, value>>)

\* The placeholder perform_ocr_on_images stores for a page that failed.
ErrorPlaceholder(filename) ==
    <<"[Error processing ">> \o filename \o <<": See server logs for details]">>

\* The texts as they would be collected by iterating over the dict instead
\* of over the list: the dict's insertion order decides.
RECURSIVE final_text_parts_dict_order(_, _)
final_text_parts_dict_order(sorted_image_paths, results) ==
    IF results = <<>> THEN <<>>
    ELSE LET rest == final_text_parts_dict_order(sorted_image_paths, Tail(results))
         IN  IF Head(results)[1] \in Range(sorted_image_paths) /\ Head(results)[2] # <<>>
             THEN <<Head(results)[2]>> \o rest
             ELSE rest

\* The texts aggregate_text_results collects: for each path of the list in
\* turn, ocr_results.get(path) when it is there and not empty.
RECURSIVE final_text_parts(_, _)
final_text_parts(sorted_image_paths, results) ==
    IF sorted_image_paths = <<>> THEN <<>>
    ELSE LET image_path == Head(sorted_image_paths)
             rest == final_text_parts(Tail(sorted_image_paths), results)
         IN  IF DictHas(results, image_path) /\ DictGet(results, image_path) # <<>>
             THEN <<DictGet(results, image_path)>> \o rest
             ELSE rest

\* aggregate_text_results as it would be if it put the list in an order of
\* its own (here the opposite one) before collecting the texts.
aggregate_text_results_reordering(sorted_image_paths, results) ==
    StrJoin(<<"\n", "\n">>, final_text_parts(Reverse(sorted_image_paths), results))

\* aggregate_text_results as it would be if it wrote the separator after
\* every text instead of joining the texts.
RECURSIVE ConcatWithSeparator(_)
ConcatWithSeparator(parts) ==
    IF parts = <<>> THEN <<>>
    ELSE Head(parts) \o <<"\n", "\n">> \o ConcatWithSeparator(Tail(parts))

aggregate_text_results_trailing(sorted_image_paths, results) ==
    ConcatWithSeparator(final_text_parts(sorted_image_paths, results))

\* What aggregate_text_results returns.
aggregate_text_results(sorted_image_paths, results) ==
    StrJoin(<<"\n", "\n">>, final_text_parts(sorted_image_paths, results))

\* ------------------------------------------------------------------------
\* Initial states
\* ------------------------------------------------------------------------

\* A job that is never started.
IdleZip == [path |-> ZipPath, is_zip |-> FALSE, members |-> <<>>, corrupt |-> 0]

\* The state at the call of run_job for the jobs in run, each with any
\* uploaded file of zips; the other jobs are never started.
InitJobs(run, zips) ==
    /\ pc = [j \in Jobs |-> IF j \in run THEN "start" ELSE "absent"]
    /\ zip_file \in [Jobs -> zips \cup {IdleZip}]
    /\ \A j \in Jobs : IF j \in run THEN zip_file[j] \in zips ELSE zip_file[j] = IdleZip
    /\ streamer \in [Jobs -> BOOLEAN]
    /\ \A j \in Jobs \ run : streamer[j]
    /\ extraction_dir = [j \in Jobs |-> None]
    /\ extracted_dir = [j \in Jobs |-> None]
    /\ extracted = [j \in Jobs |-> 0]
    /\ exc = [j \in Jobs |-> NoExc]
    /\ walked = [j \in Jobs |-> {}]
    /\ found_images = [j \in Jobs |-> <<>>]
    /\ skipped_count = [j \in Jobs |-> 0]
    /\ image_paths = [j \in Jobs |-> <<>>]
    /\ image_count = [j \in Jobs |-> 0]
    /\ ocr_i = [j \in Jobs |-> 0]
    /\ ocr_results = [j \in Jobs |-> <<>>]
    /\ final_text = [j \in Jobs |-> <<>>]
    /\ result = [j \in Jobs |-> <<>>]
    /\ published = [j \in Jobs |-> <<>>]
    /\ capability_calls = [j \in Jobs |-> <<>>]
    /\ rmtree_log = [j \in Jobs |-> <<>>]
    /\ faults = [j \in Jobs |-> {}]
    /\ disk = [d \in DirIds |-> [exists |-> FALSE, files |-> {}]]
    /\ clock = 0
    /\ sids = [s \in Sids |-> "unused"]
    /\ rooms = [s \in Sids |-> {}]
    /\ received = [s \in Sids |-> <<>>]
    /\ emit_failed = [j \in Jobs |-> 0]
    /\ requests = 0

Init == InitJobs({"job1"}, ZipFiles)

\* ------------------------------------------------------------------------
\* pipeline/job_manager.py: run_job, first part
\* ------------------------------------------------------------------------

\* run_job as it would be without its first emit_event call: the try block
\* is entered with nothing announced.
RunJobStartUnannounced(j) ==
    /\ pc[j] = "start"
    /\ IF ~streamer[j]
       THEN /\ result' = [result EXCEPT ![j] = <<"Error: Server configuration issue.">>]
            /\ pc' = [pc EXCEPT ![j] = "returned"]
       ELSE /\ pc' = [pc EXCEPT ![j] = "validate"]
            /\ UNCHANGED result
    /\ UNCHANGED <<zip_file, streamer, extraction_dir, extracted_dir, extracted, exc,
                   walked, found_images, skipped_count, image_paths, image_count,
                   ocr_i, ocr_results, final_text, capability_calls, rmtree_log,
                   faults, disk, published, clock, socketio>>

\* run_job as it would be if, given no streamer, it went on with one of its
\* own instead of returning.
RunJobStartDefaultStreamer(j) ==
    /\ pc[j] = "start"
    /\ emit_event(j, <<Call("JOB_STARTED", "RUNNING", "INFO",
           <<"Processing new job for file: ">> \o Basename(zip_file[j].path),
           NoData)>>)
    /\ pc' = [pc EXCEPT ![j] = "validate"]
    /\ UNCHANGED <<zip_file, streamer, extraction_dir, extracted_dir, extracted, exc,
                   walked, found_images, skipped_count, image_paths, image_count,
                   ocr_i, ocr_results, final_text, result, capability_calls,
                   rmtree_log, faults, disk>>

\* run_job is entered: without a streamer it returns at once; with one it
\* emits JOB_STARTED and enters the try block.
RunJobStart(j) ==
    /\ pc[j] = "start"
    /\ IF ~streamer[j]
       THEN /\ result' = [result EXCEPT ![j] = <<"Error: Server configuration issue.">>]
            /\ pc' = [pc EXCEPT ![j] = "returned"]
            /\ UNCHANGED <<published, clock, socketio>>
       ELSE /\ emit_event(j, <<Call("JOB_STARTED", "RUNNING", "INFO",
                    <<"Processing new job for file: ">> \o Basename(zip_file[j].path),
                    NoData)>>)
            /\ pc' = [pc EXCEPT ![j] = "validate"]
            /\ UNCHANGED result
    /\ UNCHANGED <<zip_file, streamer, extraction_dir, extracted_dir, extracted, exc,
                   walked, found_images, skipped_count, image_paths, image_count,
                   ocr_i, ocr_results, final_text, capability_calls, rmtree_log,
                   faults, disk>>

\* ------------------------------------------------------------------------
\* pipeline/zip_handler.py: handle_zip_file
\* ------------------------------------------------------------------------

\* Validation: a file that is no ZIP archive raises ValueError before any
\* directory is created.
Validate(j) ==
    /\ pc[j] = "validate"
    /\ IF ~is_zipfile(zip_file[j])
       THEN /\ emit_event(j,
                  <<Call("VALIDATION", "RUNNING", "INFO", <<"Validating uploaded file...">>, NoData),
                    Call("VALIDATION", "FAILED", "ERROR", <<"File is not a valid ZIP archive.">>, NoData)>>)
            /\ exc' = [exc EXCEPT ![j] =
                          [type |-> "ValueError",
                           text |-> <<"Uploaded file is not a valid ZIP archive.">>]]
            /\ pc' = [pc EXCEPT ![j] = "except"]
       ELSE /\ emit_event(j,
                  <<Call("VALIDATION", "RUNNING", "INFO", <<"Validating uploaded file...">>, NoData),
                    Call("VALIDATION", "SUCCESS", "SUCCESS", <<"File validation successful.">>, NoData)>>)
            /\ pc' = [pc EXCEPT ![j] = "mkdtemp"]
            /\ UNCHANGED exc
    /\ UNCHANGED <<zip_file, streamer, extraction_dir, extracted_dir, extracted,
                   walked, found_images, skipped_count, image_paths, image_count,
                   ocr_i, ocr_results, final_text, result, capability_calls,
                   rmtree_log, faults, disk>>

\* tempfile.mkdtemp as it would be if the directory were made under a name
\* chosen without regard to what exists (os.makedirs(..., exist_ok=True)).
MkDtempAnyName(j) ==
    /\ pc[j] = "mkdtemp"
    /\ \/ \E d \in DirIds :
            /\ disk' = [disk EXCEPT ![d] =
                            [exists |-> TRUE,
                             files |-> IF disk[d].exists THEN disk[d].files ELSE {}]]
            /\ extraction_dir' = [extraction_dir EXCEPT ![j] = d]
            /\ pc' = [pc EXCEPT ![j] = "open"]
            /\ UNCHANGED <<exc, faults>>
       \/ /\ exc' = [exc EXCEPT ![j] =
                        [type |-> "OSError", text |-> <<"mkdtemp: no usable temporary directory">>]]
          /\ faults' = [faults EXCEPT ![j] = @ \cup {"mkdtemp"}]
          /\ pc' = [pc EXCEPT ![j] = "except"]
          /\ UNCHANGED <<disk, extraction_dir>>
    /\ UNCHANGED <<zip_file, streamer, extracted_dir, extracted, walked, found_images,
                   skipped_count, image_paths, image_count, ocr_i, ocr_results,
                   final_text, result, published, capability_calls, rmtree_log, clock, socketio>>

\* tempfile.mkdtemp: creates a directory under a name nothing has, or
\* fails, and the failure is logged and raised again.
MkDtemp(j) ==
    /\ pc[j] = "mkdtemp"
    /\ \/ \E d \in DirIds :
            /\ ~disk[d].exists
            /\ disk' = [disk EXCEPT ![d] = [exists |-> TRUE, files |-> {}]]
            /\ extraction_dir' = [extraction_dir EXCEPT ![j] = d]
            /\ pc' = [pc EXCEPT ![j] = "open"]
            /\ UNCHANGED <<exc, faults>>
       \/ /\ exc' = [exc EXCEPT ![j] =
                        [type |-> "OSError", text |-> <<"mkdtemp: no usable temporary directory">>]]
          /\ faults' = [faults EXCEPT ![j] = @ \cup {"mkdtemp"}]
          /\ pc' = [pc EXCEPT ![j] = "except"]
          /\ UNCHANGED <<disk, extraction_dir>>
    /\ UNCHANGED <<zip_file, streamer, extracted_dir, extracted, walked, found_images,
                   skipped_count, image_paths, image_count, ocr_i, ocr_results,
                   final_text, result, published, capability_calls, rmtree_log, clock, socketio>>

\* zipfile.ZipFile(zip_file_path): a corrupt central directory raises
\* BadZipFile inside the try block; otherwise extraction is announced.
OpenZip(j) ==
    /\ pc[j] = "open"
    /\ IF zip_file[j].corrupt = -1
       THEN /\ exc' = [exc EXCEPT ![j] =
                          [type |-> "BadZipFile", text |-> <<"Bad magic number for central directory">>]]
            /\ pc' = [pc EXCEPT ![j] = "extract_failed"]
            /\ UNCHANGED <<published, clock, socketio>>
       ELSE /\ emit_event(j, <<Call("EXTRACTION", "RUNNING", "INFO",
                    <<"Starting extraction to temporary directory...">>, NoData)>>)
            /\ pc' = [pc EXCEPT ![j] = "extract"]
            /\ UNCHANGED exc
    /\ UNCHANGED <<zip_file, streamer, extraction_dir, extracted_dir, extracted,
                   walked, found_images, skipped_count, image_paths, image_count,
                   ocr_i, ocr_results, final_text, result, capability_calls,
                   rmtree_log, faults, disk>>

\* One turn of the loop over file_list: the member is extracted and
\* reported; a corrupt member raises BadZipFile; the file system may fail.
ExtractMember(j) ==
    /\ pc[j] = "extract"
    /\ extracted[j] < Len(zip_file[j].members)
    /\ LET k == extracted[j] + 1
           member == zip_file[j].members[k]
           d == extraction_dir[j]
       IN  \/ /\ zip_file[j].corrupt = k
              /\ exc' = [exc EXCEPT ![j] =
                            [type |-> "BadZipFile",
                             text |-> <<"Bad CRC-32 for file ">> \o MemberFilename(member)]]
              /\ pc' = [pc EXCEPT ![j] = "extract_failed"]
              /\ UNCHANGED <<extracted, disk, published, clock, socketio, faults>>
           \/ /\ zip_file[j].corrupt # k
              /\ exc' = [exc EXCEPT ![j] =
                            [type |-> "OSError", text |-> <<"No space left on device">>]]
              /\ faults' = [faults EXCEPT ![j] = @ \cup {"extract"}]
              /\ pc' = [pc EXCEPT ![j] = "extract_failed"]
              /\ UNCHANGED <<extracted, disk, published, clock, socketio>>
           \/ /\ zip_file[j].corrupt # k
              /\ disk' = [disk EXCEPT ![d].files = @ \cup {member}]
              /\ extracted' = [extracted EXCEPT ![j] = k]
              /\ emit_event(j, <<Call("FILE_EXTRACTED", "SUCCESS", "INFO",
                      <<"Extracted: ">> \o MemberFilename(member),
                      [filename |-> MemberFilename(member)])>>)
              /\ UNCHANGED <<exc, pc, faults>>
    /\ UNCHANGED <<zip_file, streamer, extraction_dir, extracted_dir, walked,
                   found_images, skipped_count, image_paths, image_count, ocr_i,
                   ocr_results, final_text, result, capability_calls, rmtree_log>>

\* The loop is over: extraction is reported complete and the directory is
\* returned to run_job.
ExtractDone(j) ==
    /\ pc[j] = "extract"
    /\ extracted[j] = Len(zip_file[j].members)
    /\ emit_event(j, <<Call("EXTRACTION", "SUCCESS", "SUCCESS",
           <<"Extraction complete. Extracted ">> \o IntToStr(Len(zip_file[j].members))
               \o <<" items.">>, NoData)>>)
    /\ extracted_dir' = [extracted_dir EXCEPT ![j] = extraction_dir[j]]
    /\ pc' = [pc EXCEPT ![j] = "scan"]
    /\ UNCHANGED <<zip_file, streamer, extraction_dir, extracted, exc, walked,
                   found_images, skipped_count, image_paths, image_count, ocr_i,
                   ocr_results, final_text, result, capability_calls, rmtree_log,
                   faults, disk>>

\* The except clauses of the extraction as they would be without their
\* shutil.rmtree call: the event, then the error goes on to the caller.
ExtractFailedLeavingDir(j) ==
    /\ pc[j] = "extract_failed"
    /\ IF exc[j].type = "BadZipFile"
       THEN /\ emit_event(j, <<Call("EXTRACTION", "FAILED", "ERROR",
                    <<"File is a corrupt ZIP archive.">>, NoData)>>)
            /\ exc' = [exc EXCEPT ![j] =
                          [type |-> "ValueError",
                           text |-> <<"File is a corrupt or bad ZIP archive: ">> \o exc[j].text]]
       ELSE /\ emit_event(j, <<Call("EXTRACTION", "FAILED", "ERROR",
                    <<"An unexpected error occurred during extraction.">>, NoData)>>)
            /\ UNCHANGED exc
    /\ pc' = [pc EXCEPT ![j] = "except"]
    /\ UNCHANGED <<zip_file, streamer, extraction_dir, extracted_dir, extracted,
                   walked, found_images, skipped_count, image_paths, image_count,
                   ocr_i, ocr_results, final_text, result, capability_calls,
                   rmtree_log, faults, disk>>

\* The except clauses of the extraction: shutil.rmtree(extraction_dir),
\* then the EXTRACTION FAILED event, then the error goes on to the caller
\* (BadZipFile as a ValueError, anything else as it is).  When rmtree
\* itself raises, its exception leaves the clause at once.
ExtractFailed(j) ==
    /\ pc[j] = "extract_failed"
    /\ LET d == extraction_dir[j] IN
       \/ /\ disk' = [disk EXCEPT ![d] = [exists |-> FALSE, files |-> {}]]
          /\ rmtree_log' = [rmtree_log EXCEPT ![j] =
                               Append(@, [by |-> "handle_zip_file", dir |-> d, ok |-> TRUE])]
          /\ IF exc[j].type = "BadZipFile"
             THEN /\ emit_event(j, <<Call("EXTRACTION", "FAILED", "ERROR",
                          <<"File is a corrupt ZIP archive.">>, NoData)>>)
                  /\ exc' = [exc EXCEPT ![j] =
                                [type |-> "ValueError",
                                 text |-> <<"File is a corrupt or bad ZIP archive: ">> \o exc[j].text]]
             ELSE /\ emit_event(j, <<Call("EXTRACTION", "FAILED", "ERROR",
                          <<"An unexpected error occurred during extraction.">>, NoData)>>)
                  /\ UNCHANGED exc
          /\ UNCHANGED faults
       \/ /\ rmtree_log' = [rmtree_log EXCEPT ![j] =
                               Append(@, [by |-> "handle_zip_file", dir |-> d, ok |-> FALSE])]
          /\ exc' = [exc EXCEPT ![j] =
                        [type |-> "OSError", text |-> <<"rmtree: directory not empty">>]]
          /\ faults' = [faults EXCEPT ![j] = @ \cup {"rmtree"}]
          /\ UNCHANGED <<disk, published, clock, socketio>>
    /\ pc' = [pc EXCEPT ![j] = "except"]
    /\ UNCHANGED <<zip_file, streamer, extraction_dir, extracted_dir, extracted,
                   walked, found_images, skipped_count, image_paths, image_count,
                   ocr_i, ocr_results, final_text, result, capability_calls>>

\* ------------------------------------------------------------------------
\* pipeline/image_processor.py: scan_for_images
\* ------------------------------------------------------------------------

\* The scan is announced and its locals are initialised.
ScanStart(j) ==
    /\ pc[j] = "scan"
    /\ emit_event(j, <<Call("IMAGE_SCAN", "RUNNING", "INFO",
           <<"Scanning extracted files for supported images...">>, NoData)>>)
    /\ found_images' = [found_images EXCEPT ![j] = <<>>]
    /\ skipped_count' = [skipped_count EXCEPT ![j] = 0]
    /\ walked' = [walked EXCEPT ![j] = {}]
    /\ pc' = [pc EXCEPT ![j] = "walk"]
    /\ UNCHANGED <<zip_file, streamer, extraction_dir, extracted_dir, extracted, exc,
                   image_paths, image_count, ocr_i, ocr_results, final_text, result,
                   capability_calls, rmtree_log, faults, disk>>

\* The files os.walk can yield next: those of the top directory in any
\* order, then those of the subdirectories (top-down walk).
WalkNext(j) ==
    LET d == extracted_dir[j]
        left == IF disk[d].exists THEN disk[d].files \ walked[j] ELSE {}
    IN  {f \in left : f.dir = <<>> \/ \A g \in left : g.dir # <<>>}

\* One turn of the inner loop: the file is a supported image, reported and
\* collected, or it is skipped, reported and counted.
ScanFile(j) ==
    /\ pc[j] = "walk"
    /\ \E f \in WalkNext(j) :
          /\ walked' = [walked EXCEPT ![j] = @ \cup {f}]
          /\ IF IsSupported(f.name)
             THEN /\ emit_event(j, <<Call("IMAGE_FOUND", "SUCCESS", "INFO",
                          <<"Found image: ">> \o f.name, [filename |-> f.name])>>)
                  /\ found_images' = [found_images EXCEPT ![j] =
                                         Append(@, FullPath(extracted_dir[j], f))]
                  /\ UNCHANGED skipped_count
             ELSE /\ emit_event(j, <<Call("FILE_SKIPPED", "RUNNING", "DEBUG",
                          <<"Skipped non-image file: ">> \o f.name, [filename |-> f.name])>>)
                  /\ skipped_count' = [skipped_count EXCEPT ![j] = @ + 1]
                  /\ UNCHANGED found_images
    /\ UNCHANGED <<pc, zip_file, streamer, extraction_dir, extracted_dir, extracted, exc,
                   image_paths, image_count, ocr_i, ocr_results, final_text, result,
                   capability_calls, rmtree_log, faults, disk>>

\* The message of the closing IMAGE_SCAN event.
ScanMessage(count, skipped) ==
    <<"Scan complete. Found ">> \o IntToStr(count) \o <<" supported images.">>
    \o (IF skipped > 0
        THEN <<" Skipped ">> \o IntToStr(skipped) \o <<" other files.">>
        ELSE <<>>)

\* The walk is over: the list is sorted, the closing event is emitted and
\* the list and its length are returned to run_job.
ScanDone(j) ==
    /\ pc[j] = "walk"
    /\ WalkNext(j) = {}
    /\ LET sorted == SortFound(found_images[j]) IN
          /\ found_images' = [found_images EXCEPT ![j] = sorted]
          /\ emit_event(j, <<Call("IMAGE_SCAN", "SUCCESS", "SUCCESS",
                 ScanMessage(Len(sorted), skipped_count[j]),
                 [image_count |-> Len(sorted), skipped_count |-> skipped_count[j]])>>)
          /\ image_paths' = [image_paths EXCEPT ![j] = sorted]
          /\ image_count' = [image_count EXCEPT ![j] = Len(sorted)]
    /\ pc' = [pc EXCEPT ![j] = "scanned"]
    /\ UNCHANGED <<zip_file, streamer, extraction_dir, extracted_dir, extracted, exc,
                   walked, skipped_count, ocr_i, ocr_results, final_text, result,
                   capability_calls, rmtree_log, faults, disk>>

\* ------------------------------------------------------------------------
\* pipeline/job_manager.py: run_job, the zero-page branch
\* ------------------------------------------------------------------------

NoImagesMessage ==
    <<"Process complete. No supported image files (.jpg, .png, .webp) were found.">>

\* The zero-page branch as it would be if it reported a failure.
NoImagesAsFailure(j) ==
    /\ pc[j] = "scanned"
    /\ image_count[j] = 0
    /\ emit_event(j, <<Call("JOB_FAILED", "FAILED", "ERROR", NoImagesMessage, NoData)>>)
    /\ result' = [result EXCEPT ![j] = NoImagesMessage]
    /\ pc' = [pc EXCEPT ![j] = "finally"]
    /\ UNCHANGED <<zip_file, streamer, extraction_dir, extracted_dir, extracted, exc,
                   walked, found_images, skipped_count, image_paths, image_count,
                   ocr_i, ocr_results, final_text, capability_calls, rmtree_log,
                   faults, disk>>

\* run_job as it would be without its zero-page branch: with no page it
\* goes on to the recognition.
NoImagesContinuing(j) ==
    /\ pc[j] = "scanned"
    /\ image_count[j] = 0
    /\ emit_event(j, <<Call("OCR_PIPELINE", "RUNNING", "INFO",
           <<"Starting OCR process for ">> \o IntToStr(Len(image_paths[j])) \o <<" images...">>,
           NoData)>>)
    /\ pc' = [pc EXCEPT ![j] = "init_client"]
    /\ UNCHANGED <<zip_file, streamer, extraction_dir, extracted_dir, extracted, exc,
                   walked, found_images, skipped_count, image_paths, image_count,
                   ocr_i, ocr_results, final_text, result, capability_calls,
                   rmtree_log, faults, disk>>

\* The zero-page branch as it would be if it removed the directory before
\* it emitted JOB_WARNING.
NoImagesCleaningFirst(j) ==
    /\ pc[j] = "scanned"
    /\ image_count[j] = 0
    /\ disk' = [disk EXCEPT ![extracted_dir[j]] = [exists |-> FALSE, files |-> {}]]
    /\ rmtree_log' = [rmtree_log EXCEPT ![j] =
                         Append(@, [by |-> "run_job", dir |-> extracted_dir[j], ok |-> TRUE])]
    /\ emit_event(j, <<Call("JOB_WARNING", "COMPLETED", "WARNING", NoImagesMessage, NoData)>>)
    /\ result' = [result EXCEPT ![j] = NoImagesMessage]
    /\ pc' = [pc EXCEPT ![j] = "finally"]
    /\ UNCHANGED <<zip_file, streamer, extraction_dir, extracted_dir, extracted, exc,
                   walked, found_images, skipped_count, image_paths, image_count,
                   ocr_i, ocr_results, final_text, capability_calls, faults>>

\* image_count == 0: JOB_WARNING is emitted and the message is returned.
NoImages(j) ==
    /\ pc[j] = "scanned"
    /\ image_count[j] = 0
    /\ emit_event(j, <<Call("JOB_WARNING", "COMPLETED", "WARNING", NoImagesMessage, NoData)>>)
    /\ result' = [result EXCEPT ![j] = NoImagesMessage]
    /\ pc' = [pc EXCEPT ![j] = "finally"]
    /\ UNCHANGED <<zip_file, streamer, extraction_dir, extracted_dir, extracted, exc,
                   walked, found_images, skipped_count, image_paths, image_count,
                   ocr_i, ocr_results, final_text, capability_calls, rmtree_log,
                   faults, disk>>

\* ------------------------------------------------------------------------
\* pipeline/vision_client.py: perform_ocr_on_images
\* ------------------------------------------------------------------------

\* The stage is announced.
OcrStart(j) ==
    /\ pc[j] = "scanned"
    /\ image_count[j] # 0
    /\ emit_event(j, <<Call("OCR_PIPELINE", "RUNNING", "INFO",
           <<"Starting OCR process for ">> \o IntToStr(Len(image_paths[j])) \o <<" images...">>,
           NoData)>>)
    /\ pc' = [pc EXCEPT ![j] = "init_client"]
    /\ UNCHANGED <<zip_file, streamer, extraction_dir, extracted_dir, extracted, exc,
                   walked, found_images, skipped_count, image_paths, image_count,
                   ocr_i, ocr_results, final_text, result, capability_calls,
                   rmtree_log, faults, disk>>

\* The text of the EnvironmentError _initialize_vision_client raises.
CredentialsError(credentials) ==
    IF credentials = "unset"
    THEN <<"GOOGLE_APPLICATION_CREDENTIALS_JSON environment variable is not set.">>
    ELSE <<"Failed to initialize Google Vision client: ">> \o <<"invalid service account info">>

\* The message of the OCR_PIPELINE FAILED event for the error text e.
ConfigurationMessage(e) ==
    <<"Configuration error: Could not initialize Vision API. Please check server credentials. Error: ">>
    \o e

\* The acquisition as it would be without the raise in its except clause:
\* the failure is reported and the loop is entered all the same.
InitClientNoRaise(j) ==
    /\ pc[j] = "init_client"
    /\ \E credentials \in {"valid", "unset", "invalid"} :
          /\ IF credentials = "valid"
             THEN UNCHANGED <<faults, published, clock, socketio>>
             ELSE /\ emit_event(j, <<Call("OCR_PIPELINE", "FAILED", "ERROR",
                          ConfigurationMessage(CredentialsError(credentials)), NoData)>>)
                  /\ faults' = [faults EXCEPT ![j] = @ \cup {"credentials"}]
          /\ ocr_results' = [ocr_results EXCEPT ![j] = <<>>]
          /\ ocr_i' = [ocr_i EXCEPT ![j] = 0]
          /\ pc' = [pc EXCEPT ![j] = "ocr_loop"]
    /\ UNCHANGED <<zip_file, streamer, extraction_dir, extracted_dir, extracted, exc,
                   walked, found_images, skipped_count, image_paths, image_count,
                   final_text, result, capability_calls, rmtree_log, disk>>

\* _initialize_vision_client(): with usable credentials the loop is
\* prepared; otherwise OCR_PIPELINE FAILED is emitted and the
\* EnvironmentError is raised again.
InitClient(j) ==
    /\ pc[j] = "init_client"
    /\ \E credentials \in {"valid", "unset", "invalid"} :
          IF credentials = "valid"
          THEN /\ ocr_results' = [ocr_results EXCEPT ![j] = <<>>]
               /\ ocr_i' = [ocr_i EXCEPT ![j] = 0]
               /\ pc' = [pc EXCEPT ![j] = "ocr_loop"]
               /\ UNCHANGED <<exc, faults, published, clock, socketio>>
          ELSE /\ emit_event(j, <<Call("OCR_PIPELINE", "FAILED", "ERROR",
                       ConfigurationMessage(CredentialsError(credentials)), NoData)>>)
               /\ exc' = [exc EXCEPT ![j] =
                             [type |-> "EnvironmentError", text |-> CredentialsError(credentials)]]
               /\ faults' = [faults EXCEPT ![j] = @ \cup {"credentials"}]
               /\ pc' = [pc EXCEPT ![j] = "except"]
               /\ UNCHANGED <<ocr_results, ocr_i>>
    /\ UNCHANGED <<zip_file, streamer, extraction_dir, extracted_dir, extracted,
                   walked, found_images, skipped_count, image_paths, image_count,
                   final_text, result, capability_calls, rmtree_log, disk>>

\* The files open(image_path) can read.
FilesAt(image_path) ==
    UNION {{f \in disk[d].files : FullPath(d, f) = image_path} :
               d \in {x \in DirIds : disk[x].exists}}

\* "(i+1/total) ".
Progress(i, total) == <<"(">> \o IntToStr(i + 1) \o <<"/">> \o IntToStr(total) \o <<") ">>

\* The value the loop stores for a page: the recognised text, or the
\* placeholder when anything in the try block raised.
PageOutcome(ok, filename, text) == IF ok THEN text ELSE ErrorPlaceholder(filename)

\* The loop turn as it would be without the try/except around the page: a
\* page that fails is reported and its exception leaves the function.
OcrPageAborting(j) ==
    /\ pc[j] = "ocr_loop"
    /\ ocr_i[j] < Len(image_paths[j])
    /\ LET i == ocr_i[j]
           total_images == Len(image_paths[j])
           image_path == image_paths[j][i + 1]
           filename == Basename(image_path)
           started == Call("OCR_STARTED", "RUNNING", "INFO",
                           Progress(i, total_images) \o <<"Processing: ">> \o filename,
                           [filename |-> filename, current |-> i + 1, total |-> total_images])
       IN  \/ \E f \in FilesAt(image_path) :
                 /\ capability_calls' = [capability_calls EXCEPT ![j] = Append(@, image_path)]
                 /\ ocr_results' = [ocr_results EXCEPT ![j] =
                        DictSet(@, image_path, PageOutcome(TRUE, filename, f.text))]
                 /\ emit_event(j, <<started,
                        Call("OCR_SUCCESS", "SUCCESS", "SUCCESS",
                             Progress(i, total_images) \o <<"Successfully processed: ">>
                                 \o filename,
                             [filename |-> filename])>>)
                 /\ UNCHANGED <<pc, exc>>
           \/ /\ emit_event(j, <<started,
                     Call("OCR_FAILED", "FAILED", "ERROR",
                          Progress(i, total_images) \o <<"Failed to process: ">> \o filename
                              \o <<". Error: ">> \o <<"backend error">>,
                          [filename |-> filename, error |-> <<"backend error">>])>>)
              /\ capability_calls' = [capability_calls EXCEPT ![j] = Append(@, image_path)]
              /\ exc' = [exc EXCEPT ![j] = [type |-> "Exception", text |-> <<"backend error">>]]
              /\ pc' = [pc EXCEPT ![j] = "except"]
              /\ UNCHANGED ocr_results
    /\ ocr_i' = [ocr_i EXCEPT ![j] = @ + 1]
    /\ UNCHANGED <<zip_file, streamer, extraction_dir, extracted_dir, extracted,
                   walked, found_images, skipped_count, image_paths, image_count,
                   final_text, result, rmtree_log, disk, faults>>

\* One turn of the loop over image_paths: OCR_STARTED, then the file is
\* read and sent to document_text_detection; the text is stored and
\* OCR_SUCCESS emitted, or, when reading or the call failed, OCR_FAILED is
\* emitted and the placeholder stored.  The loop goes on either way.
OcrPage(j) ==
    /\ pc[j] = "ocr_loop"
    /\ ocr_i[j] < Len(image_paths[j])
    /\ LET i == ocr_i[j]
           total_images == Len(image_paths[j])
           image_path == image_paths[j][i + 1]
           filename == Basename(image_path)
           started == Call("OCR_STARTED", "RUNNING", "INFO",
                           Progress(i, total_images) \o <<"Processing: ">> \o filename,
                           [filename |-> filename, current |-> i + 1, total |-> total_images])
           failed(e) == Call("OCR_FAILED", "FAILED", "ERROR",
                             Progress(i, total_images) \o <<"Failed to process: ">> \o filename
                                 \o <<". Error: ">> \o e,
                             [filename |-> filename, error |-> e])
       IN  \/ \E f \in FilesAt(image_path) :
                 /\ capability_calls' = [capability_calls EXCEPT ![j] = Append(@, image_path)]
                 /\ UNCHANGED faults
                 /\ \/ /\ ocr_results' = [ocr_results EXCEPT ![j] =
                              DictSet(@, image_path, PageOutcome(TRUE, filename, f.text))]
                       /\ emit_event(j, <<started,
                              Call("OCR_SUCCESS", "SUCCESS", "SUCCESS",
                                   Progress(i, total_images) \o <<"Successfully processed: ">>
                                       \o filename,
                                   [filename |-> filename])>>)
                    \/ /\ ocr_results' = [ocr_results EXCEPT ![j] =
                              DictSet(@, image_path, PageOutcome(FALSE, filename, f.text))]
                       /\ emit_event(j, <<started, failed(<<"backend error">>)>>)
           \/ /\ ocr_results' = [ocr_results EXCEPT ![j] =
                     DictSet(@, image_path, PageOutcome(FALSE, filename, <<>>))]
              /\ emit_event(j, <<started, failed(<<"cannot read the image file">>)>>)
              /\ faults' = [faults EXCEPT ![j] = @ \cup {"read"}]
              /\ UNCHANGED capability_calls
    /\ ocr_i' = [ocr_i EXCEPT ![j] = @ + 1]
    /\ UNCHANGED <<pc, zip_file, streamer, extraction_dir, extracted_dir, extracted, exc,
                   walked, found_images, skipped_count, image_paths, image_count,
                   final_text, result, rmtree_log, disk>>

\* The end of the loop as it would be if the closing event were kept for
\* runs in which every page was recognised.
OcrDoneQuietAfterFailure(j) ==
    /\ pc[j] = "ocr_loop"
    /\ ocr_i[j] = Len(image_paths[j])
    /\ LET failed == \E k \in 1..Len(ocr_results[j]) :
                         ocr_results[j][k][2] =
                             ErrorPlaceholder(Basename(ocr_results[j][k][1]))
       IN  emit_event(j, IF failed THEN <<>>
                         ELSE <<Call("OCR_PIPELINE", "SUCCESS", "SUCCESS",
                                     <<"Finished processing all images.">>, NoData)>>)
    /\ pc' = [pc EXCEPT ![j] = "aggregate"]
    /\ UNCHANGED <<zip_file, streamer, extraction_dir, extracted_dir, extracted, exc,
                   walked, found_images, skipped_count, image_paths, image_count,
                   ocr_i, ocr_results, final_text, result, capability_calls,
                   rmtree_log, faults, disk>>

\* The loop is over: one closing event, and the dict is returned.
OcrDone(j) ==
    /\ pc[j] = "ocr_loop"
    /\ ocr_i[j] = Len(image_paths[j])
    /\ emit_event(j, <<Call("OCR_PIPELINE", "SUCCESS", "SUCCESS",
           <<"Finished processing all images.">>, NoData)>>)
    /\ pc' = [pc EXCEPT ![j] = "aggregate"]
    /\ UNCHANGED <<zip_file, streamer, extraction_dir, extracted_dir, extracted, exc,
                   walked, found_images, skipped_count, image_paths, image_count,
                   ocr_i, ocr_results, final_text, result, capability_calls,
                   rmtree_log, faults, disk>>

\* ------------------------------------------------------------------------
\* pipeline/text_aggregator.py: aggregate_text_results
\* ------------------------------------------------------------------------

Aggregate(j) ==
    /\ pc[j] = "aggregate"
    /\ emit_event(j,
           <<Call("AGGREGATION", "RUNNING", "INFO",
                  <<"Aggregating text from all processed images...">>, NoData),
             Call("AGGREGATION", "SUCCESS", "SUCCESS",
                  <<"Text aggregation complete.">>, NoData)>>)
    /\ final_text' = [final_text EXCEPT ![j] =
                         aggregate_text_results(image_paths[j], ocr_results[j])]
    /\ pc' = [pc EXCEPT ![j] = "complete"]
    /\ UNCHANGED <<zip_file, streamer, extraction_dir, extracted_dir, extracted, exc,
                   walked, found_images, skipped_count, image_paths, image_count,
                   ocr_i, ocr_results, result, capability_calls, rmtree_log,
                   faults, disk>>

\* ------------------------------------------------------------------------
\* pipeline/job_manager.py: run_job, the end
\* ------------------------------------------------------------------------

\* The end of the try block as it would be if run_job returned the message
\* of the event instead of the text.
JobCompletedReturningMessage(j) ==
    /\ pc[j] = "complete"
    /\ emit_event(j, <<Call("JOB_COMPLETED", "SUCCESS", "SUCCESS",
           <<"Successfully processed all images.">>, [final_text |-> final_text[j]])>>)
    /\ result' = [result EXCEPT ![j] = <<"Successfully processed all images.">>]
    /\ pc' = [pc EXCEPT ![j] = "finally"]
    /\ UNCHANGED <<zip_file, streamer, extraction_dir, extracted_dir, extracted, exc,
                   walked, found_images, skipped_count, image_paths, image_count,
                   ocr_i, ocr_results, final_text, capability_calls, rmtree_log,
                   faults, disk>>

\* JOB_COMPLETED carries the text, which is also returned.
JobCompleted(j) ==
    /\ pc[j] = "complete"
    /\ emit_event(j, <<Call("JOB_COMPLETED", "SUCCESS", "SUCCESS",
           <<"Successfully processed all images.">>, [final_text |-> final_text[j]])>>)
    /\ result' = [result EXCEPT ![j] = final_text[j]]
    /\ pc' = [pc EXCEPT ![j] = "finally"]
    /\ UNCHANGED <<zip_file, streamer, extraction_dir, extracted_dir, extracted, exc,
                   walked, found_images, skipped_count, image_paths, image_count,
                   ocr_i, ocr_results, final_text, capability_calls, rmtree_log,
                   faults, disk>>

\* An exception no stage handles is raised inside the try block, at the
\* entry of the scan, of the recognition or of the aggregation.
InternalError(j) ==
    /\ pc[j] \in {"scan", "init_client", "aggregate"}
    /\ "internal" \notin faults[j]
    /\ exc' = [exc EXCEPT ![j] = [type |-> "RuntimeError", text |-> <<"internal diagnostic">>]]
    /\ faults' = [faults EXCEPT ![j] = @ \cup {"internal"}]
    /\ pc' = [pc EXCEPT ![j] = "except"]
    /\ UNCHANGED <<zip_file, streamer, extraction_dir, extracted_dir, extracted,
                   walked, found_images, skipped_count, image_paths, image_count,
                   ocr_i, ocr_results, final_text, result, published,
                   capability_calls, rmtree_log, disk, clock, socketio>>

\* The test of the first except clause as it would be if the clause were
\* "except Exception".
IsException(e) == e.type # "None"

\* isinstance(e, ValueError).
IsValueError(e) == e.type = "ValueError"

\* except ValueError: the error's text is put in the event and returned.
HandleValueError(j) ==
    /\ pc[j] = "except"
    /\ IsValueError(exc[j])
    /\ emit_event(j, <<Call("JOB_FAILED", "FAILED", "ERROR",
           <<"A validation error occurred: ">> \o exc[j].text, NoData)>>)
    /\ result' = [result EXCEPT ![j] = <<"Error: ">> \o exc[j].text]
    /\ exc' = [exc EXCEPT ![j] = NoExc]
    /\ pc' = [pc EXCEPT ![j] = "finally"]
    /\ UNCHANGED <<zip_file, streamer, extraction_dir, extracted_dir, extracted,
                   walked, found_images, skipped_count, image_paths, image_count,
                   ocr_i, ocr_results, final_text, capability_calls, rmtree_log,
                   faults, disk>>

\* The except Exception clause as it would be if it only logged and
\* returned, emitting nothing.
HandleExceptionSilent(j) ==
    /\ pc[j] = "except"
    /\ ~IsValueError(exc[j])
    /\ result' = [result EXCEPT ![j] =
                     <<"An unexpected server error occurred. Please try again.">>]
    /\ exc' = [exc EXCEPT ![j] = NoExc]
    /\ pc' = [pc EXCEPT ![j] = "finally"]
    /\ UNCHANGED <<zip_file, streamer, extraction_dir, extracted_dir, extracted,
                   walked, found_images, skipped_count, image_paths, image_count,
                   ocr_i, ocr_results, final_text, capability_calls, rmtree_log,
                   faults, disk, published, clock, socketio>>

\* The except Exception clause as it would be if the event carried the text
\* it logs.
HandleExceptionVerbose(j) ==
    /\ pc[j] = "except"
    /\ ~IsValueError(exc[j])
    /\ emit_event(j, <<Call("JOB_FAILED", "FAILED", "ERROR",
           <<"An unexpected error occurred: ">> \o exc[j].text, NoData)>>)
    /\ result' = [result EXCEPT ![j] =
                     <<"An unexpected server error occurred. Please try again.">>]
    /\ exc' = [exc EXCEPT ![j] = NoExc]
    /\ pc' = [pc EXCEPT ![j] = "finally"]
    /\ UNCHANGED <<zip_file, streamer, extraction_dir, extracted_dir, extracted,
                   walked, found_images, skipped_count, image_paths, image_count,
                   ocr_i, ocr_results, final_text, capability_calls, rmtree_log,
                   faults, disk>>

\* except Exception: the error is logged; the event and the returned text
\* are fixed.
HandleException(j) ==
    /\ pc[j] = "except"
    /\ ~IsValueError(exc[j])
    /\ emit_event(j, <<Call("JOB_FAILED", "FAILED", "ERROR",
           <<"An unexpected server error occurred.">>, NoData)>>)
    /\ result' = [result EXCEPT ![j] =
                     <<"An unexpected server error occurred. Please try again.">>]
    /\ exc' = [exc EXCEPT ![j] = NoExc]
    /\ pc' = [pc EXCEPT ![j] = "finally"]
    /\ UNCHANGED <<zip_file, streamer, extraction_dir, extracted_dir, extracted,
                   walked, found_images, skipped_count, image_paths, image_count,
                   ocr_i, ocr_results, final_text, capability_calls, rmtree_log,
                   faults, disk>>

\* The cleanup as it would be at the end of the try block instead of in a
\* finally clause: it runs only when the job completed.
FinallyOnSuccessOnly(j) ==
    /\ pc[j] = "finally"
    /\ LET d == extracted_dir[j] IN
       IF /\ d # None
          /\ disk[d].exists
          /\ published[j] # <<>>
          /\ published[j][Len(published[j])].event = "JOB_COMPLETED"
       THEN \/ /\ disk' = [disk EXCEPT ![d] = [exists |-> FALSE, files |-> {}]]
               /\ rmtree_log' = [rmtree_log EXCEPT ![j] =
                                    Append(@, [by |-> "run_job", dir |-> d, ok |-> TRUE])]
               /\ UNCHANGED faults
            \/ /\ rmtree_log' = [rmtree_log EXCEPT ![j] =
                                    Append(@, [by |-> "run_job", dir |-> d, ok |-> FALSE])]
               /\ faults' = [faults EXCEPT ![j] = @ \cup {"rmtree"}]
               /\ UNCHANGED disk
       ELSE UNCHANGED <<disk, rmtree_log, faults>>
    /\ pc' = [pc EXCEPT ![j] = "returned"]
    /\ UNCHANGED <<zip_file, streamer, extraction_dir, extracted_dir, extracted, exc,
                   walked, found_images, skipped_count, image_paths, image_count,
                   ocr_i, ocr_results, final_text, result, published,
                   capability_calls, clock, socketio>>

\* The cleanup as it would be if run_job removed whatever directory the
\* extraction had created, without looking whether it is still there:
\* after a failed extraction shutil.rmtree is called a second time.
FinallyRemovingAgain(j) ==
    /\ pc[j] = "finally"
    /\ LET d == extraction_dir[j] IN
       IF d # None
       THEN \/ /\ disk[d].exists
               /\ disk' = [disk EXCEPT ![d] = [exists |-> FALSE, files |-> {}]]
               /\ rmtree_log' = [rmtree_log EXCEPT ![j] =
                                    Append(@, [by |-> "run_job", dir |-> d, ok |-> TRUE])]
               /\ UNCHANGED faults
            \/ /\ rmtree_log' = [rmtree_log EXCEPT ![j] =
                                    Append(@, [by |-> "run_job", dir |-> d, ok |-> FALSE])]
               /\ faults' = [faults EXCEPT ![j] = @ \cup {"rmtree"}]
               /\ UNCHANGED disk
       ELSE UNCHANGED <<disk, rmtree_log, faults>>
    /\ pc' = [pc EXCEPT ![j] = "returned"]
    /\ UNCHANGED <<zip_file, streamer, extraction_dir, extracted_dir, extracted, exc,
                   walked, found_images, skipped_count, image_paths, image_count,
                   ocr_i, ocr_results, final_text, result, published,
                   capability_calls, clock, socketio>>

\* The cleanup as it would be without the try/except around shutil.rmtree:
\* an error of rmtree leaves run_job as an exception, and nothing returns.
FinallyRaising(j) ==
    /\ pc[j] = "finally"
    /\ LET d == extracted_dir[j] IN
       IF d # None /\ disk[d].exists
       THEN \/ /\ disk' = [disk EXCEPT ![d] = [exists |-> FALSE, files |-> {}]]
               /\ rmtree_log' = [rmtree_log EXCEPT ![j] =
                                    Append(@, [by |-> "run_job", dir |-> d, ok |-> TRUE])]
               /\ pc' = [pc EXCEPT ![j] = "returned"]
               /\ UNCHANGED faults
            \/ /\ rmtree_log' = [rmtree_log EXCEPT ![j] =
                                    Append(@, [by |-> "run_job", dir |-> d, ok |-> FALSE])]
               /\ faults' = [faults EXCEPT ![j] = @ \cup {"rmtree"}]
               /\ pc' = [pc EXCEPT ![j] = "raised"]
               /\ UNCHANGED disk
       ELSE /\ pc' = [pc EXCEPT ![j] = "returned"]
            /\ UNCHANGED <<disk, rmtree_log, faults>>
    /\ UNCHANGED <<zip_file, streamer, extraction_dir, extracted_dir, extracted, exc,
                   walked, found_images, skipped_count, image_paths, image_count,
                   ocr_i, ocr_results, final_text, result, published,
                   capability_calls, clock, socketio>>

\* finally: when run_job holds a directory and it exists, shutil.rmtree is
\* called; an error of rmtree is logged and swallowed.  Then run_job returns.
Finally(j) ==
    /\ pc[j] = "finally"
    /\ LET d == extracted_dir[j] IN
       IF d # None /\ disk[d].exists
       THEN \/ /\ disk' = [disk EXCEPT ![d] = [exists |-> FALSE, files |-> {}]]
               /\ rmtree_log' = [rmtree_log EXCEPT ![j] =
                                    Append(@, [by |-> "run_job", dir |-> d, ok |-> TRUE])]
               /\ UNCHANGED faults
            \/ /\ rmtree_log' = [rmtree_log EXCEPT ![j] =
                                    Append(@, [by |-> "run_job", dir |-> d, ok |-> FALSE])]
               /\ faults' = [faults EXCEPT ![j] = @ \cup {"rmtree"}]
               /\ UNCHANGED disk
       ELSE UNCHANGED <<disk, rmtree_log, faults>>
    /\ pc' = [pc EXCEPT ![j] = "returned"]
    /\ UNCHANGED <<zip_file, streamer, extraction_dir, extracted_dir, extracted, exc,
                   walked, found_images, skipped_count, image_paths, image_count,
                   ocr_i, ocr_results, final_text, result, published,
                   capability_calls, clock, socketio>>

\* ------------------------------------------------------------------------
\* The pipeline
\* ------------------------------------------------------------------------

Next ==
    \E j \in Jobs :
        \/ RunJobStart(j)
        \/ Validate(j)
        \/ MkDtemp(j)
        \/ OpenZip(j)
        \/ ExtractMember(j)
        \/ ExtractDone(j)
        \/ ExtractFailed(j)
        \/ ScanStart(j)
        \/ ScanFile(j)
        \/ ScanDone(j)
        \/ NoImages(j)
        \/ OcrStart(j)
        \/ InitClient(j)
        \/ OcrPage(j)
        \/ OcrDone(j)
        \/ Aggregate(j)
        \/ JobCompleted(j)
        \/ InternalError(j)
        \/ HandleValueError(j)
        \/ HandleException(j)
        \/ Finally(j)

Spec == Init /\ [][Next]_vars

\* The uploads of SpecLive: the files with at most MaxLiveFiles members.
LiveZips == {z \in ZipFiles : Len(z.members) <= MaxLiveFiles}

InitLive == InitJobs({"job1"}, LiveZips)

\* The pipeline when every call of the run comes back, with its value or
\* with an exception, and the thread of the job goes on: a run that can
\* take a step takes one.
SpecLive == InitLive /\ [][Next]_vars /\ WF_vars(Next)

\* ------------------------------------------------------------------------
\* app.py: the Socket.IO handlers, with two jobs running at once
\* ------------------------------------------------------------------------

\* handle_connect: a client connects and gets a session id of its own.
handle_connect(s) ==
    /\ requests < MaxRequests
    /\ sids[s] = "unused"
    /\ \A t \in Sids : SidBefore(t, s) => sids[t] # "unused"
    /\ sids' = [sids EXCEPT ![s] = "connected"]
    /\ requests' = requests + 1
    /\ UNCHANGED <<pc, zip_file, streamer, extraction_dir, extracted_dir, extracted,
                   exc, walked, found_images, skipped_count, image_paths,
                   image_count, ocr_i, ocr_results, final_text, result, published,
                   capability_calls, rmtree_log, faults, disk, clock, rooms,
                   received, emit_failed>>

\* handle_join as it would be if joining a room sent the room's earlier
\* events again to the session that joins.
handle_join_replaying(s, job_id) ==
    /\ requests < MaxRequests
    /\ sids[s] = "connected"
    /\ requests' = requests + 1
    /\ IF job_id # None
       THEN /\ rooms' = [rooms EXCEPT ![s] = @ \cup {job_id}]
            /\ received' = [received EXCEPT ![s] =
                   @ \o [i \in 1..Len(published[job_id]) |->
                            Message(job_id, published[job_id][i])]]
       ELSE UNCHANGED <<rooms, received>>
    /\ UNCHANGED <<pc, zip_file, streamer, extraction_dir, extracted_dir, extracted,
                   exc, walked, found_images, skipped_count, image_paths,
                   image_count, ocr_i, ocr_results, final_text, result, published,
                   capability_calls, rmtree_log, faults, disk, clock, sids,
                   emit_failed>>

\* handle_join: data.get('job_id') is a job id, and the session joins that
\* room, or it is missing, and nothing happens.
handle_join(s, job_id) ==
    /\ requests < MaxRequests
    /\ sids[s] = "connected"
    /\ requests' = requests + 1
    /\ IF job_id # None
       THEN rooms' = [rooms EXCEPT ![s] = @ \cup {job_id}]
       ELSE UNCHANGED rooms
    /\ UNCHANGED <<pc, zip_file, streamer, extraction_dir, extracted_dir, extracted,
                   exc, walked, found_images, skipped_count, image_paths,
                   image_count, ocr_i, ocr_results, final_text, result, published,
                   capability_calls, rmtree_log, faults, disk, clock, sids,
                   received, emit_failed>>

\* handle_disconnect: the session is gone, and the server takes it out of
\* every room.
handle_disconnect(s) ==
    /\ requests < MaxRequests
    /\ sids[s] = "connected"
    /\ requests' = requests + 1
    /\ sids' = [sids EXCEPT ![s] = "disconnected"]
    /\ rooms' = [rooms EXCEPT ![s] = {}]
    /\ UNCHANGED <<pc, zip_file, streamer, extraction_dir, extracted_dir, extracted,
                   exc, walked, found_images, skipped_count, image_paths,
                   image_count, ocr_i, ocr_results, final_text, result, published,
                   capability_calls, rmtree_log, faults, disk, clock, received,
                   emit_failed>>

\* The upload of each of the two jobs: a file that is no archive, which
\* run_job rejects after four events.
RoomZips == {z \in ZipFiles : ~z.is_zip /\ z.path = ZipPath}

\* Both jobs are started, each with a streamer.
InitRooms ==
    /\ InitJobs(Jobs, RoomZips)
    /\ \A j \in Jobs : streamer[j]

\* The two jobs run at once, while clients connect, join rooms and leave.
NextRooms ==
    \/ \E j \in Jobs :
          \/ RunJobStart(j)
          \/ Validate(j)
          \/ HandleValueError(j)
          \/ Finally(j)
    \/ \E s \in Sids : handle_connect(s)
    \/ \E s \in Sids : \E job_id \in Jobs \cup {None} : handle_join(s, job_id)
    \/ \E s \in Sids : handle_disconnect(s)

SpecRooms == InitRooms /\ [][NextRooms]_vars

\* ------------------------------------------------------------------------
\* Two jobs in their staging directories at once
\* ------------------------------------------------------------------------

\* The members of the archives uploaded in SpecPar: two files that are no
\* pages, under different names.
ParMembers ==
    {Candidates[4], [dir |-> <<>>, name |-> <<"l", "o", "g">>, text |-> <<>>]}

\* The uploads of SpecPar: an archive of one member, sound or with that
\* member corrupt.
ParZips ==
    {[path |-> ZipPath, is_zip |-> TRUE, members |-> <<m>>, corrupt |-> c] :
        m \in ParMembers, c \in {0, 1}}

\* What run_job and the validation published for an archive, from time t on.
ValidatedEvents(t) ==
    << format_event("JOB_STARTED", "RUNNING", "INFO",
                    <<"Processing new job for file: ">> \o Basename(ZipPath), NoData, t),
       format_event("VALIDATION", "RUNNING", "INFO",
                    <<"Validating uploaded file...">>, NoData, t + 1),
       format_event("VALIDATION", "SUCCESS", "SUCCESS",
                    <<"File validation successful.">>, NoData, t + 2) >>

\* Both jobs were started, one after the other, and each has validated its
\* archive and is about to call mkdtemp.  No client is connected, and no
\* socketio.emit call raises in the runs from here.
InitPar ==
    /\ pc = [j \in Jobs |-> "mkdtemp"]
    /\ zip_file \in [Jobs -> ParZips]
    /\ streamer = [j \in Jobs |-> TRUE]
    /\ extraction_dir = [j \in Jobs |-> None]
    /\ extracted_dir = [j \in Jobs |-> None]
    /\ extracted = [j \in Jobs |-> 0]
    /\ exc = [j \in Jobs |-> NoExc]
    /\ walked = [j \in Jobs |-> {}]
    /\ found_images = [j \in Jobs |-> <<>>]
    /\ skipped_count = [j \in Jobs |-> 0]
    /\ image_paths = [j \in Jobs |-> <<>>]
    /\ image_count = [j \in Jobs |-> 0]
    /\ ocr_i = [j \in Jobs |-> 0]
    /\ ocr_results = [j \in Jobs |-> <<>>]
    /\ final_text = [j \in Jobs |-> <<>>]
    /\ result = [j \in Jobs |-> <<>>]
    /\ published = [j \in Jobs |-> ValidatedEvents(IF j = "job1" THEN 0 ELSE 3)]
    /\ capability_calls = [j \in Jobs |-> <<>>]
    /\ rmtree_log = [j \in Jobs |-> <<>>]
    /\ faults = [j \in Jobs |-> {}]
    /\ disk = [d \in DirIds |-> [exists |-> FALSE, files |-> {}]]
    /\ clock = 6
    /\ sids = [s \in Sids |-> "unused"]
    /\ rooms = [s \in Sids |-> {}]
    /\ received = [s \in Sids |-> <<>>]
    /\ emit_failed = [j \in Jobs |-> MaxEmitFailures]
    /\ requests = 0

\* The two jobs extract, scan and clean up in any interleaving.
NextPar ==
    \E j \in Jobs :
        \/ MkDtemp(j)
        \/ OpenZip(j)
        \/ ExtractMember(j)
        \/ ExtractDone(j)
        \/ ExtractFailed(j)
        \/ ScanStart(j)
        \/ ScanFile(j)
        \/ ScanDone(j)
        \/ NoImages(j)
        \/ HandleValueError(j)
        \/ HandleException(j)
        \/ Finally(j)

SpecPar == InitPar /\ [][NextPar]_vars

\* ------------------------------------------------------------------------
\* aggregate_text_results on its own
\* ------------------------------------------------------------------------

\* The page paths aggregate_text_results is given in SpecAgg.
AggPaths == {FullPath("a", Candidates[i]) : i \in {1, 2, 3, 5}}

\* The texts an outcome mapping holds in SpecAgg.
AggTexts == {<<>>, <<"A">>, <<"B">>}

\* The lists of at most n distinct elements of S.
RECURSIVE ListsOf(_, _)
ListsOf(S, n) ==
    IF n = 0 THEN {<<>>}
    ELSE LET shorter == ListsOf(S, n - 1)
         IN  shorter \cup {Append(l, x) : l \in shorter, x \in S}

Distinct(l) == \A a, b \in 1..Len(l) : a # b => l[a] # l[b]

\* The page lists: at most MaxAggPages distinct paths in any order.
AggPageLists == {l \in ListsOf(AggPaths, MaxAggPages) : Distinct(l)}

\* The outcome mappings: a dict with at most MaxAggPages keys, inserted in
\* any order, each with any text.
AggDictsOf(keys) ==
    {[i \in 1..Len(keys) |-> <<keys[i], texts[i]>>] : texts \in [1..Len(keys) -> AggTexts]}

\* aggregate_text_results is about to be called with any page list and any
\* outcome mapping.
InitAgg ==
    /\ pc = [j \in Jobs |-> IF j = "job1" THEN "aggregate" ELSE "absent"]
    /\ zip_file = [j \in Jobs |-> IdleZip]
    /\ streamer = [j \in Jobs |-> TRUE]
    /\ extraction_dir = [j \in Jobs |-> None]
    /\ extracted_dir = [j \in Jobs |-> None]
    /\ extracted = [j \in Jobs |-> 0]
    /\ exc = [j \in Jobs |-> NoExc]
    /\ walked = [j \in Jobs |-> {}]
    /\ found_images = [j \in Jobs |-> <<>>]
    /\ skipped_count = [j \in Jobs |-> 0]
    /\ \E pages \in AggPageLists :
          /\ image_paths = [j \in Jobs |-> IF j = "job1" THEN pages ELSE <<>>]
          /\ image_count = [j \in Jobs |-> IF j = "job1" THEN Len(pages) ELSE 0]
          /\ ocr_i = [j \in Jobs |-> IF j = "job1" THEN Len(pages) ELSE 0]
    /\ \E keys \in AggPageLists : \E dict \in AggDictsOf(keys) :
          ocr_results = [j \in Jobs |-> IF j = "job1" THEN dict ELSE <<>>]
    /\ final_text = [j \in Jobs |-> <<>>]
    /\ result = [j \in Jobs |-> <<>>]
    /\ published = [j \in Jobs |-> <<>>]
    /\ capability_calls = [j \in Jobs |-> <<>>]
    /\ rmtree_log = [j \in Jobs |-> <<>>]
    /\ faults = [j \in Jobs |-> {}]
    /\ disk = [d \in DirIds |-> [exists |-> FALSE, files |-> {}]]
    /\ clock = 0
    /\ sids = [s \in Sids |-> "unused"]
    /\ rooms = [s \in Sids |-> {}]
    /\ received = [s \in Sids |-> <<>>]
    /\ emit_failed = [j \in Jobs |-> 0]
    /\ requests = 0

NextAgg == \E j \in Jobs : Aggregate(j)

SpecAgg == InitAgg /\ [][NextAgg]_vars

\* ------------------------------------------------------------------------
\* Properties
\* ------------------------------------------------------------------------

TerminalEvents == {"JOB_COMPLETED", "JOB_WARNING", "JOB_FAILED"}

\* The positions of job j's published events whose name is in names.
EventsNamed(j, names) == {i \in 1..Len(published[j]) : published[j][i].event \in names}

\* The name of the last event published for job j ("" when there is none).
LastEvent(j) ==
    IF published[j] = <<>> THEN "" ELSE published[j][Len(published[j])].event

\* run_job has returned for job j.
Returned(j) == pc[j] = "returned"

C2_Original ==
    \A j \in Jobs : Returned(j) => Cardinality(EventsNamed(j, TerminalEvents)) = 1

\* C2 as amended: a run_job given a streamer has published exactly one
\* terminal event when it returns, whichever way it exits, and never more
\* than one before; a run_job given no streamer publishes no event at all.
C2_OneTerminalEvent ==
    \A j \in Jobs :
        /\ Cardinality(EventsNamed(j, TerminalEvents)) <= 1
        /\ Returned(j) =>
              Cardinality(EventsNamed(j, TerminalEvents)) = (IF streamer[j] THEN 1 ELSE 0)
        /\ ~streamer[j] => published[j] = <<>>

\* C2 witness: a run that failed on an exception no stage handles has
\* returned with its single JOB_FAILED event.
C2_Witness ==
    \E j \in Jobs :
        /\ Returned(j)
        /\ streamer[j]
        /\ "internal" \in faults[j]
        /\ EventsNamed(j, TerminalEvents) = {Len(published[j])}
        /\ LastEvent(j) = "JOB_FAILED"

\* The staging directory job j created (mkdtemp succeeded) is on disk.
StagingOnDisk(j) == extraction_dir[j] # None /\ disk[extraction_dir[j]].exists

RECURSIVE DigitsValue(_)
DigitsValue(s) ==
    IF s = <<>> THEN 0
    ELSE 10 * DigitsValue(SubSeq(s, 1, Len(s) - 1)) + (IndexOf(Digits, s[Len(s)]) - 1)

\* The length of the maximal run of digits, or of non-digits, s begins with.
RunLen(s) ==
    CHOOSE n \in 1..Len(s) :
        /\ \A k \in 1..n : IsDigit(s[k]) = IsDigit(s[1])
        /\ n = Len(s) \/ IsDigit(s[n + 1]) # IsDigit(s[1])

\* A name split into maximal digit runs and maximal non-digit runs.
RECURSIVE NaturalTokens(_)
NaturalTokens(s) ==
    IF s = <<>> THEN <<>>
    ELSE LET n == RunLen(s)
             run == SubSeq(s, 1, n)
         IN  <<[digits |-> IsDigit(s[1]),
                value  |-> IF IsDigit(s[1]) THEN DigitsValue(run) ELSE 0,
                text   |-> IF IsDigit(s[1]) THEN <<>> ELSE Lower(run)]>>
             \o NaturalTokens(SubSeq(s, n + 1, Len(s)))

\* Digit runs compare as integers, text case-insensitively.
TokenLess(a, b) ==
    IF a.digits /\ b.digits THEN a.value < b.value
    ELSE IF ~a.digits /\ ~b.digits THEN StrLess(a.text, b.text)
    ELSE a.digits

\* a sorts strictly before b in natural order.
NaturalLess(a, b) ==
    LET ta == NaturalTokens(a)
        tb == NaturalTokens(b)
    IN  \E i \in 1..(Len(ta) + 1) :
            /\ i <= Len(tb)
            /\ \A k \in 1..(i - 1) : ta[k] = tb[k]
            /\ (i = Len(ta) + 1 \/ TokenLess(ta[i], tb[i]))

\* C4: the page list scan_for_images returns is in natural order: no entry
\* sorts, in natural order, strictly before the entry that precedes it.
C4_NaturalOrder ==
    \A j \in Jobs :
        \A i \in 1..(Len(image_paths[j]) - 1) :
            ~NaturalLess(image_paths[j][i + 1], image_paths[j][i])

\* ---- scan_for_images

SupportedExtensions ==
    { <<"j", "p", "g">>, <<"j", "p", "e", "g">>, <<"p", "n", "g">>, <<"w", "e", "b", "p">> }

\* The name is a stem, a dot and a supported extension in any letter case.
HasSupportedExtension(name) ==
    \E e \in SupportedExtensions :
        LET n == Len(name)
            k == Len(e)
        IN  /\ n > k + 1
            /\ name[n - k] = "."
            /\ Lower(SubSeq(name, n - k + 1, n)) = e
            /\ \E i \in 1..(n - k - 1) : name[i] # "."

\* The files in the staging directory run_job holds.
Staged(j) == IF extracted_dir[j] = None THEN {} ELSE disk[extracted_dir[j]].files

SupportedStaged(j) == {f \in Staged(j) : HasSupportedExtension(f.name)}

\* C5: when scan_for_images has returned, no exception is raised, the list
\* holds exactly the N staged files with a supported extension and the
\* count is N, N IMAGE_FOUND and M FILE_SKIPPED events were published (M
\* the number of other files), and the closing IMAGE_SCAN event reports
\* image_count N and skipped_count M; no exception is pending in the walk.
C5_ScanCounts ==
    \A j \in Jobs :
        /\ pc[j] = "walk" => exc[j] = NoExc
        /\ pc[j] = "scanned" =>
              LET N == Cardinality(SupportedStaged(j))
                  M == Cardinality(Staged(j)) - N
                  closing == published[j][Len(published[j])]
              IN  /\ exc[j] = NoExc
                  /\ Len(image_paths[j]) = N
                  /\ image_count[j] = N
                  /\ Range(image_paths[j]) =
                         {FullPath(extracted_dir[j], f) : f \in SupportedStaged(j)}
                  /\ Cardinality(EventsNamed(j, {"IMAGE_FOUND"})) = N
                  /\ Cardinality(EventsNamed(j, {"FILE_SKIPPED"})) = M
                  /\ closing.event = "IMAGE_SCAN"
                  /\ closing.status = "SUCCESS"
                  /\ closing.data.image_count = N
                  /\ closing.data.skipped_count = M

\* C5 witness: a scan of two supported files, one of them with an
\* upper-case extension, and one other file has returned.
C5_Witness ==
    \E j \in Jobs :
        /\ pc[j] = "scanned"
        /\ Cardinality(Staged(j)) = 3
        /\ Cardinality(SupportedStaged(j)) = 2
        /\ \E f \in SupportedStaged(j) : SplitextExt(f.name) = <<".", "J", "P", "E", "G">>
        /\ image_count[j] = 2

\* ---- aggregate_text_results

\* aggregate_text_results has returned for job j.
Aggregated(j) == pc[j] \in {"complete", "finally", "returned"} /\ exc[j] = NoExc
                 /\ EventsNamed(j, {"AGGREGATION"}) # {}

\* Text t stands in s at offset a.
Occurs(t, s, a) == a >= 1 /\ a + Len(t) - 1 <= Len(s) /\ SubSeq(s, a, a + Len(t) - 1) = t

\* Page i of job j's list has a text to contribute.
Contributes(j, i) ==
    /\ DictHas(ocr_results[j], image_paths[j][i])
    /\ DictGet(ocr_results[j], image_paths[j][i]) # <<>>

\* C6: in the text aggregate_text_results returns, the texts of any two
\* contributing pages stand in the order of the page list: the text of the
\* earlier page occurs wholly before an occurrence of the later page's,
\* whatever the insertion order of the outcome mapping.
C6_AggregationOrder ==
    \A j \in Jobs :
        Aggregated(j) =>
            \A i, k \in 1..Len(image_paths[j]) :
                (i < k /\ Contributes(j, i) /\ Contributes(j, k)) =>
                    LET ti == DictGet(ocr_results[j], image_paths[j][i])
                        tk == DictGet(ocr_results[j], image_paths[j][k])
                    IN  \E a, b \in 1..Len(final_text[j]) :
                            /\ Occurs(ti, final_text[j], a)
                            /\ Occurs(tk, final_text[j], b)
                            /\ a + Len(ti) <= b

\* C6 witness: three pages were aggregated whose outcomes were inserted in
\* another order than the page list's, with different texts on the first two.
C6_Witness ==
    \E j \in Jobs :
        /\ Aggregated(j)
        /\ Len(image_paths[j]) = 3
        /\ Len(ocr_results[j]) = 3
        /\ ocr_results[j][1][1] = image_paths[j][3]
        /\ ocr_results[j][2][1] = image_paths[j][1]
        /\ ocr_results[j][3][1] = image_paths[j][2]
        /\ DictGet(ocr_results[j], image_paths[j][1]) = <<"A">>
        /\ DictGet(ocr_results[j], image_paths[j][2]) = <<"B">>
        /\ final_text[j] # <<>>

\* ---- perform_ocr_on_images

IsOutcomeEvent(e) == e.event \in {"OCR_SUCCESS", "OCR_FAILED"}

\* The OCR_SUCCESS and OCR_FAILED events of job j, in publication order.
OutcomeEvents(j) == SelectSeq(published[j], IsOutcomeEvent)

\* C7: when a run in which the capability was acquired and a page was
\* started has returned (no exception outside the stages' own handling),
\* every page has exactly one outcome event and exactly one entry in the
\* outcome mapping, the entry is the failure placeholder exactly for the
\* pages whose outcome event is OCR_FAILED, the capability was called at
\* most once per page and, when every image file could be read, exactly
\* once for every page in list order, and the job ended with JOB_COMPLETED
\* and no JOB_FAILED.
C7_PerPageIsolation ==
    \A j \in Jobs :
        (Returned(j) /\ EventsNamed(j, {"OCR_STARTED"}) # {} /\ "internal" \notin faults[j]) =>
            LET n == Len(image_paths[j])
                out == OutcomeEvents(j)
            IN  /\ Len(out) = n
                /\ Len(ocr_results[j]) = n
                /\ \A k \in 1..n : DictHas(ocr_results[j], image_paths[j][k])
                /\ \A k \in 1..n :
                       (out[k].event = "OCR_FAILED") <=>
                           (DictGet(ocr_results[j], image_paths[j][k])
                                = ErrorPlaceholder(Basename(image_paths[j][k])))
                /\ Distinct(capability_calls[j])
                /\ Range(capability_calls[j]) \subseteq Range(image_paths[j])
                /\ "read" \notin faults[j] => capability_calls[j] = image_paths[j]
                /\ LastEvent(j) = "JOB_COMPLETED"
                /\ EventsNamed(j, {"JOB_FAILED"}) = {}

\* C7 witness: a run over three pages in which only the call for page 2
\* failed has returned completed.
C7_Witness ==
    \E j \in Jobs :
        /\ Returned(j)
        /\ Len(image_paths[j]) = 3
        /\ Len(capability_calls[j]) = 3
        /\ Len(OutcomeEvents(j)) = 3
        /\ OutcomeEvents(j)[1].event = "OCR_SUCCESS"
        /\ OutcomeEvents(j)[2].event = "OCR_FAILED"
        /\ OutcomeEvents(j)[3].event = "OCR_SUCCESS"
        /\ LastEvent(j) = "JOB_COMPLETED"

\* ---- run_job, zero pages

\* The upload is a sound archive none of whose members has a supported
\* extension.
SoundWithoutPages(z) ==
    /\ z.is_zip
    /\ z.corrupt = 0
    /\ \A i \in 1..Len(z.members) : ~HasSupportedExtension(z.members[i].name)

\* No event of job j carries a document text.
NoDocumentText(j) ==
    \A i \in 1..Len(published[j]) : "final_text" \notin DOMAIN published[j][i].data

\* C8: for a sound archive without a supported image file, no OCR_* and no
\* AGGREGATION event is ever published, no JOB_COMPLETED, and no event
\* carries a document text; unless the environment failed the extraction
\* or an unhandled exception arose, no JOB_FAILED is published either, and
\* when run_job has returned the last event is JOB_WARNING with status
\* COMPLETED and the explanatory message is what run_job returned.
C8_ZeroPagesWarning ==
    \A j \in Jobs :
        (streamer[j] /\ SoundWithoutPages(zip_file[j]) /\ pc[j] # "absent") =>
            /\ EventsNamed(j, {"OCR_PIPELINE", "OCR_STARTED", "OCR_SUCCESS", "OCR_FAILED",
                               "AGGREGATION", "JOB_COMPLETED"}) = {}
            /\ NoDocumentText(j)
            /\ capability_calls[j] = <<>>
            /\ faults[j] \cap {"mkdtemp", "extract", "internal"} = {} =>
                  /\ EventsNamed(j, {"JOB_FAILED"}) = {}
                  /\ Returned(j) =>
                        /\ LastEvent(j) = "JOB_WARNING"
                        /\ published[j][Len(published[j])].status = "COMPLETED"
                        /\ result[j] = NoImagesMessage

\* C8 witness: a run over an archive that holds a file, none supported, has
\* returned after the scan skipped the file.
C8_Witness ==
    \E j \in Jobs :
        /\ Returned(j)
        /\ SoundWithoutPages(zip_file[j])
        /\ Len(zip_file[j].members) = 1
        /\ EventsNamed(j, {"FILE_SKIPPED"}) # {}
        /\ LastEvent(j) = "JOB_WARNING"

\* ---- run_job, malformed archive

\* C9: for an upload whose content is no ZIP archive, whatever its name,
\* handle_zip_file raises a ValueError (the only exception such a job ever
\* propagates), no staging directory is ever created by the job and no
\* rmtree is ever called, and when run_job has returned the job ended with
\* VALIDATION FAILED followed by JOB_FAILED and returned the error's text.
C9_MalformedArchive ==
    \A j \in Jobs :
        (streamer[j] /\ ~zip_file[j].is_zip /\ pc[j] # "absent") =>
            /\ extraction_dir[j] = None
            /\ extracted_dir[j] = None
            /\ rmtree_log[j] = <<>>
            /\ pc[j] \notin {"mkdtemp", "open", "extract", "scan"}
            /\ pc[j] = "except" => exc[j].type = "ValueError"
            /\ Returned(j) =>
                  /\ LastEvent(j) = "JOB_FAILED"
                  /\ Len(published[j]) = 4
                  /\ published[j][3].event = "VALIDATION"
                  /\ published[j][3].status = "FAILED"
                  /\ result[j] = <<"Error: ", "Uploaded file is not a valid ZIP archive.">>

\* C9 witness: a file named like an archive whose content is none has been
\* rejected, and run_job has returned.
C9_Witness ==
    \E j \in Jobs :
        /\ Returned(j)
        /\ streamer[j]
        /\ ~zip_file[j].is_zip
        /\ zip_file[j].path = ZipPath
        /\ LastEvent(j) = "JOB_FAILED"

\* ---- recognition capability

\* C10: when the acquisition of the recognition capability has failed, no
\* OCR_STARTED, OCR_SUCCESS or OCR_FAILED event is published and the
\* capability is never called, no AGGREGATION event is published, and when
\* run_job has returned the job ended with JOB_FAILED and run_job called
\* rmtree on the staging directory, which is gone unless rmtree reported
\* an error.
C10_AcquisitionFailure ==
    \A j \in Jobs :
        "credentials" \in faults[j] =>
            /\ EventsNamed(j, {"OCR_STARTED", "OCR_SUCCESS", "OCR_FAILED", "AGGREGATION"}) = {}
            /\ capability_calls[j] = <<>>
            /\ ocr_results[j] = <<>>
            /\ pc[j] \in {"except", "finally", "returned"}
            /\ Returned(j) =>
                  /\ LastEvent(j) = "JOB_FAILED"
                  /\ EventsNamed(j, TerminalEvents) = {Len(published[j])}
                  /\ Len(rmtree_log[j]) = 1
                  /\ rmtree_log[j][1].by = "run_job"
                  /\ rmtree_log[j][1].dir = extraction_dir[j]
                  /\ rmtree_log[j][1].ok => ~StagingOnDisk(j)

\* C10 witness: a run whose acquisition failed has returned with JOB_FAILED
\* and its staging directory removed.
C10_Witness ==
    \E j \in Jobs :
        /\ Returned(j)
        /\ "credentials" \in faults[j]
        /\ LastEvent(j) = "JOB_FAILED"
        /\ extraction_dir[j] # None
        /\ rmtree_log[j] # <<>>
        /\ ~StagingOnDisk(j)

\* ---- EventStreamer and the Socket.IO rooms

\* The payloads session s was sent for room j, in the order it got them.
RoomMessages(s, j) ==
    LET InRoom(m) == m.room = j
        ms == SelectSeq(received[s], InRoom)
    IN  [i \in 1..Len(ms) |-> ms[i].payload]

\* a is b with some elements left out, the others in the same order.
RECURSIVE IsSubsequence(_, _)
IsSubsequence(a, b) ==
    IF a = <<>> THEN TRUE
    ELSE IF b = <<>> THEN FALSE
    ELSE IF Head(a) = Head(b) THEN IsSubsequence(Tail(a), Tail(b))
    ELSE IsSubsequence(a, Tail(b))

\* C11: for every job and every session, the events the session received
\* for that job are a subsequence, in the same order, of the events
\* published for the job, while the other job publishes through the same
\* EventStreamer.
C11_DeliveryOrder ==
    \A s \in Sids : \A j \in Jobs :
        IsSubsequence(RoomMessages(s, j), published[j])

\* C11 witness: a session still in a job's room has received two of the
\* job's events, between which the other job published an event.
C11_Witness ==
    \E s \in Sids : \E j \in Jobs : \E k \in Jobs \ {j} :
        /\ s \in Members(j)
        /\ \E i \in 1..(Len(RoomMessages(s, j)) - 1) :
           \E n \in 1..Len(published[k]) :
              /\ RoomMessages(s, j)[i].timestamp < published[k][n].timestamp
              /\ published[k][n].timestamp < RoomMessages(s, j)[i + 1].timestamp

\* C12: nothing is kept for later or sent again: in every step, what a
\* session receives is added at the end of what it had received, and each
\* message added is an event published in that very step for a room the
\* session was in before the step; so an event published while nobody is
\* in the room reaches nobody, and joining a room brings no earlier event.
C12_NoBufferNoReplay ==
    [][\A s \in Sids :
          /\ Len(received'[s]) >= Len(received[s])
          /\ SubSeq(received'[s], 1, Len(received[s])) = received[s]
          /\ \A i \in (Len(received[s]) + 1)..Len(received'[s]) :
                LET m == received'[s][i] IN
                /\ s \in Members(m.room)
                /\ \E n \in (Len(published[m.room]) + 1)..Len(published'[m.room]) :
                      published'[m.room][n] = m.payload]_vars

\* C12 witness: events were published for a job while its room was empty;
\* a session joined later and has received a later event of the job, and
\* not the first ones, although no emit for that job failed.
C12_Witness ==
    \E s \in Sids : \E j \in Jobs :
        /\ s \in Members(j)
        /\ emit_failed[j] = 0
        /\ RoomMessages(s, j) # <<>>
        /\ RoomMessages(s, j)[1] # published[j][1]
        /\ \A t \in Sids \ {s} : RoomMessages(t, j) = <<>>

\* The variables of the jobs: everything but the Socket.IO server's state.
orchestrator ==
    <<pc, zip_file, streamer, extraction_dir, extracted_dir, extracted, exc,
      walked, found_images, skipped_count, image_paths, image_count, ocr_i,
      ocr_results, final_text, result, published, capability_calls,
      rmtree_log, faults, disk, clock>>

\* From the current state a step is possible in which no emit raises and
\* the jobs get to the state o.
StepWithoutEmitFailure(o) == ENABLED (Next /\ emit_failed' = emit_failed /\ orchestrator' = o)

\* C13: a failing emit never reaches the orchestrator: whenever a step of a
\* job has an emit that raises, the same step with no emit raising was
\* possible and leaves the jobs in exactly the same state (stage, pending
\* exception, events handed to emit_event, result, rmtree calls, disk).
C13_EmitFailureInvisible ==
    [][emit_failed' # emit_failed =>
          \E o \in {orchestrator'} : StepWithoutEmitFailure(o)]_vars

\* C13 witness: a job in which an emit raised has completed, with its
\* document returned and its staging directory removed.
C13_Witness ==
    \E j \in Jobs :
        /\ Returned(j)
        /\ emit_failed[j] > 0
        /\ LastEvent(j) = "JOB_COMPLETED"
        /\ result[j] = final_text[j]
        /\ final_text[j] # <<>>
        /\ extraction_dir[j] # None
        /\ ~StagingOnDisk(j)

\* C14: a session that is connected has received events only of rooms it
\* is in: a session in the room of one job only has received no event of
\* the other job.
C14_TopicIsolation ==
    \A s \in Sids :
        sids[s] = "connected" =>
            \A i \in 1..Len(received[s]) :
                /\ received[s][i].room \in rooms[s]
                /\ \E n \in 1..Len(published[received[s][i].room]) :
                      published[received[s][i].room][n] = received[s][i].payload

\* C14 witness: a session in the room of one job only has received an
\* event of that job, and the other job has published events since.
C14_Witness ==
    \E s \in Sids : \E j \in Jobs : \E k \in Jobs \ {j} :
        /\ sids[s] = "connected"
        /\ rooms[s] = {j}
        /\ RoomMessages(s, j) # <<>>
        /\ RoomMessages(s, k) = <<>>
        /\ \E n \in 1..Len(published[k]) :
              published[k][n].timestamp > RoomMessages(s, j)[1].timestamp

\* ---- run_job, unanticipated exceptions

\* Text t stands somewhere in s.
Contains(s, t) == \E a \in 1..Len(s) : Occurs(t, s, a)

\* Event e shows text t, in its message or in a text of its data.
Shows(e, t) ==
    \/ Contains(e.message, t)
    \/ \E f \in DOMAIN e.data \cap {"filename", "error"} : Contains(e.data[f], t)

\* The texts of the exceptions no stage expects: of tempfile.mkdtemp, of
\* the file system during extraction, of shutil.rmtree in the extraction's
\* except clause, and of an error inside a later stage.
InternalDiagnostics ==
    { <<"mkdtemp: no usable temporary directory">>,
      <<"No space left on device">>,
      <<"rmtree: directory not empty">>,
      <<"internal diagnostic">> }

\* Job j met an exception no stage expects, which went up to run_job.
Unanticipated(j) ==
    \/ faults[j] \cap {"mkdtemp", "extract", "internal"} # {}
    \/ \E i \in 1..Len(rmtree_log[j]) :
          rmtree_log[j][i].by = "handle_zip_file" /\ ~rmtree_log[j][i].ok

PageFailed(results, path) ==
    DictHas(results, path) /\ DictGet(results, path) = ErrorPlaceholder(Basename(path))

\* The recognised texts of the pages that did not fail, empty ones left
\* out, in the order of the page list.
RECURSIVE RecognisedTexts(_, _)
RecognisedTexts(paths, results) ==
    IF paths = <<>> THEN <<>>
    ELSE LET rest == RecognisedTexts(Tail(paths), results)
             path == Head(paths)
         IN  IF DictHas(results, path) /\ ~PageFailed(results, path)
                /\ DictGet(results, path) # <<>>
             THEN <<DictGet(results, path)>> \o rest
             ELSE rest

\* C16: the final text of a job that completed is exactly the recognised
\* texts of the pages that did not fail, joined in discovery order: a page
\* whose recognition failed contributes nothing.
C16_FailedPagesContributeNothing ==
    \A j \in Jobs :
        (Returned(j) /\ streamer[j] /\ LastEvent(j) = "JOB_COMPLETED") =>
            final_text[j] =
                StrJoin(<<"\n", "\n">>, RecognisedTexts(image_paths[j], ocr_results[j]))

\* ---- run_job as a state machine

\* The state of the job at position p of run_job with the events published
\* so far.  FAILING is the job while an exception is on its way to
\* run_job's except clauses, that is, inside a transition to FAILED; NONE
\* is a job that has not entered the pipeline.
StageOf(p, events) ==
    CASE p \in {"absent", "start"} -> "NONE"
      [] p = "validate" -> "VALIDATING"
      [] p \in {"mkdtemp", "open", "extract", "extract_failed"} -> "EXTRACTING"
      [] p \in {"scan", "walk", "scanned"} -> "SCANNING"
      [] p \in {"init_client", "ocr_loop"} -> "RECOGNIZING"
      [] p \in {"aggregate", "complete"} -> "AGGREGATING"
      [] p = "except" -> "FAILING"
      [] p \in {"finally", "returned"} ->
            IF events = <<>> THEN "NONE"
            ELSE CASE events[Len(events)].event = "JOB_COMPLETED" -> "COMPLETED"
                   [] events[Len(events)].event = "JOB_WARNING" -> "WARNING_NO_PAGES"
                   [] events[Len(events)].event = "JOB_FAILED" -> "FAILED"
                   [] OTHER -> "NONE"

Stage(j) == StageOf(pc[j], published[j])

\* The state an event belongs to.
EventStage(name) ==
    CASE name \in {"JOB_STARTED", "VALIDATION"} -> "VALIDATING"
      [] name \in {"EXTRACTION", "FILE_EXTRACTED"} -> "EXTRACTING"
      [] name \in {"IMAGE_SCAN", "IMAGE_FOUND", "FILE_SKIPPED"} -> "SCANNING"
      [] name \in {"OCR_PIPELINE", "OCR_STARTED", "OCR_SUCCESS", "OCR_FAILED"} -> "RECOGNIZING"
      [] name = "AGGREGATION" -> "AGGREGATING"
      [] name = "JOB_COMPLETED" -> "COMPLETED"
      [] name = "JOB_WARNING" -> "WARNING_NO_PAGES"
      [] name = "JOB_FAILED" -> "FAILED"

\* The edges of section 4.6 as the claim lists them.
ListedEdges ==
    { <<"NONE", "VALIDATING">>, <<"VALIDATING", "EXTRACTING">>,
      <<"EXTRACTING", "SCANNING">>, <<"SCANNING", "RECOGNIZING">>,
      <<"RECOGNIZING", "AGGREGATING">>, <<"AGGREGATING", "COMPLETED">>,
      <<"SCANNING", "WARNING_NO_PAGES">>,
      <<"VALIDATING", "FAILING">>, <<"EXTRACTING", "FAILING">>,
      <<"RECOGNIZING", "FAILING">>, <<"FAILING", "FAILED">> }

\* The edges an exception raised inside the scan or the aggregation takes.
UnlistedFailureEdges == { <<"SCANNING", "FAILING">>, <<"AGGREGATING", "FAILING">> }

\* In a step, job j stays in its state or moves along an edge of edges,
\* to the recognition only with a page and to WARNING_NO_PAGES only
\* without one, and the events the step publishes belong to the state the
\* job is in before or after the step.
MovesAlong(j, edges) ==
    /\ \/ Stage(j)' = Stage(j)
       \/ <<Stage(j), Stage(j)'>> \in edges
    /\ (Stage(j) = "SCANNING" /\ Stage(j)' = "RECOGNIZING") => image_count[j] > 0
    /\ (Stage(j) = "SCANNING" /\ Stage(j)' = "WARNING_NO_PAGES") => image_count[j] = 0
    /\ \A i \in (Len(published[j]) + 1)..Len(published'[j]) :
          EventStage(published'[j][i].event) \in {Stage(j), Stage(j)'}

C18_NoAcquisitionDiagnostics ==
    \A j \in Jobs : \A i \in 1..Len(published[j]) :
        \A credentials \in {"unset", "invalid"} :
            ~Shows(published[j][i], CredentialsError(credentials))

\* ---- handle_zip_file, failed extraction

\* The extraction of job j failed after its directory had been created,
\* and the error has left handle_zip_file.
ExtractionFailed(j) ==
    /\ pc[j] \in {"except", "finally", "returned"}
    /\ extraction_dir[j] # None
    /\ extracted_dir[j] = None

\* C19: when the extraction failed after the staging directory was
\* created, handle_zip_file has called rmtree on that directory before the
\* error reached run_job, and from the moment run_job handles the error
\* the directory, with what was extracted into it, is gone (unless that
\* rmtree call itself reported an error); run_job makes no further call.
C19_ExtractionCleanup ==
    \A j \in Jobs :
        ExtractionFailed(j) =>
            /\ Len(rmtree_log[j]) = 1
            /\ rmtree_log[j][1].by = "handle_zip_file"
            /\ rmtree_log[j][1].dir = extraction_dir[j]
            /\ rmtree_log[j][1].ok =>
                  /\ ~StagingOnDisk(j)
                  /\ disk[extraction_dir[j]].files = {}

\* C19 witness: an entry of the archive could not be extracted after
\* another had been, and the error is now in run_job with the directory
\* already gone.
C19_Witness ==
    \E j \in Jobs :
        /\ pc[j] = "except"
        /\ ExtractionFailed(j)
        /\ extracted[j] >= 1
        /\ exc[j].type = "ValueError"
        /\ ~StagingOnDisk(j)

\* ---- perform_ocr_on_images, the events of the loop

\* The events of job j the loop and the end of the recognition publish.
IsLoopEvent(e) ==
    \/ e.event \in {"OCR_STARTED", "OCR_SUCCESS", "OCR_FAILED"}
    \/ e.event = "OCR_PIPELINE" /\ e.status = "SUCCESS"

LoopEvents(j) == SelectSeq(published[j], IsLoopEvent)

\* The recognition of job j went through its whole loop and ended.
LoopLeft(j) ==
    /\ pc[j] \notin {"init_client", "ocr_loop"}
    /\ image_paths[j] # <<>>
    /\ ocr_i[j] = Len(image_paths[j])

\* C20: the events of the loop over n pages are, page by page in the
\* order of the list, OCR_STARTED with current = i and total = n and then
\* one OCR_SUCCESS or OCR_FAILED for the same file; once the loop is left
\* one OCR_PIPELINE SUCCESS event follows them, whatever pages failed.
C20_RecognitionEvents ==
    \A j \in Jobs :
        LET n  == Len(image_paths[j])
            ev == LoopEvents(j)
        IN  /\ \A i \in 1..n :
                  /\ 2 * i - 1 <= Len(ev) =>
                        /\ ev[2 * i - 1].event = "OCR_STARTED"
                        /\ ev[2 * i - 1].data.current = i
                        /\ ev[2 * i - 1].data.total = n
                        /\ ev[2 * i - 1].data.filename = Basename(image_paths[j][i])
                        /\ 2 * i <= Len(ev)
                  /\ 2 * i <= Len(ev) =>
                        /\ ev[2 * i].event \in {"OCR_SUCCESS", "OCR_FAILED"}
                        /\ ev[2 * i].data.filename = Basename(image_paths[j][i])
            /\ pc[j] = "ocr_loop" => Len(ev) = 2 * ocr_i[j]
            /\ LoopLeft(j) =>
                  /\ Len(ev) = 2 * n + 1
                  /\ ev[2 * n + 1].event = "OCR_PIPELINE"
            /\ ~LoopLeft(j) /\ pc[j] # "ocr_loop" => ev = <<>>

\* C20 witness: a list of two pages, one recognised and one not, and the
\* closing event after them.
C20_Witness ==
    \E j \in Jobs :
        LET ev == LoopEvents(j)
        IN  /\ LoopLeft(j)
            /\ Len(image_paths[j]) = 2
            /\ Len(ev) = 5
            /\ {ev[2].event, ev[4].event} = {"OCR_SUCCESS", "OCR_FAILED"}
            /\ ev[5].event = "OCR_PIPELINE"

\* ---- the page order across the stages

\* Whether a stored outcome is a text that has characters.
HasText(t) == t # <<>>

\* The outcomes stored so far for job j, in the order they were stored.
StoredOutcomes(j) == [k \in 1..Len(ocr_results[j]) |-> ocr_results[j][k][2]]

\* The pages of job j that were handed to document_text_detection are, in
\* order, pages of the list l.
RECURSIVE InListOrder(_, _)
InListOrder(calls, l) ==
    IF calls = <<>> THEN TRUE
    ELSE IF l = <<>> THEN FALSE
    ELSE IF Head(calls) = Head(l) THEN InListOrder(Tail(calls), Tail(l))
    ELSE InListOrder(calls, Tail(l))

\* C21: the list scan_for_images returned is the one run_job keeps; the
\* recognition takes the pages in exactly that order (the k-th outcome
\* stored and the k-th OCR_STARTED event are for the k-th page of the
\* list, and the recognition calls follow the list), and the final text is
\* the texts of the outcomes joined in that same order.
C21_OneDiscoveryOrder ==
    \A j \in Jobs :
        /\ pc[j] \notin {"start", "validate", "mkdtemp", "open", "extract",
                         "extract_failed", "scan", "walk", "absent"}
             /\ extracted_dir[j] # None
             => image_paths[j] = found_images[j]
        /\ Len(ocr_results[j]) <= Len(image_paths[j])
        /\ \A k \in 1..Len(ocr_results[j]) :
              /\ ocr_results[j][k][1] = image_paths[j][k]
              /\ LoopEvents(j)[2 * k - 1].data.filename = Basename(image_paths[j][k])
        /\ InListOrder(capability_calls[j], image_paths[j])
        /\ Aggregated(j) =>
              final_text[j] = StrJoin(<<"\n", "\n">>, SelectSeq(StoredOutcomes(j), HasText))

\* C21 witness: a list of three pages went through the recognition and
\* the aggregation, and at least two of its pages have a text in the final
\* document.
C21_Witness ==
    \E j \in Jobs :
        /\ Aggregated(j)
        /\ Len(image_paths[j]) = 3
        /\ Len(capability_calls[j]) >= 2
        /\ Len(SelectSeq(StoredOutcomes(j), HasText)) >= 2
        /\ final_text[j] # <<>>

\* ---- the removal of the staging directory

\* The positions of job j in which a stage reads or writes the staging
\* directory: the extraction, the walk of the scan, the recognition loop.
UsesStaging(j) == pc[j] \in {"open", "extract", "scan", "walk", "ocr_loop"}

\* C22: shutil.rmtree is called at most once for a job, and exactly once,
\* on the directory the job created, by the time run_job has returned for
\* a job that created one: by handle_zip_file when the extraction failed,
\* by run_job otherwise, never by both.  The call removes the directory
\* unless it reports an error, and once it was made the job is in no stage
\* that reads or writes the directory.
C22_RemovedOnce ==
    \A j \in Jobs :
        /\ Len(rmtree_log[j]) <= 1
        /\ (Returned(j) /\ extraction_dir[j] # None) => Len(rmtree_log[j]) = 1
        /\ extraction_dir[j] = None => rmtree_log[j] = <<>>
        /\ rmtree_log[j] # <<>> =>
              /\ rmtree_log[j][1].dir = extraction_dir[j]
              /\ rmtree_log[j][1].by =
                     (IF extracted_dir[j] = None THEN "handle_zip_file" ELSE "run_job")
              /\ rmtree_log[j][1].ok => ~StagingOnDisk(j)
              /\ ~UsesStaging(j)
              /\ pc[j] \in {"except", "finally", "returned"}

\* C22 witness: run_job has returned after an extraction that failed with
\* entries already extracted; the one removal was handle_zip_file's, and
\* the final cleanup of run_job made none.
C22_Witness ==
    \E j \in Jobs :
        /\ Returned(j)
        /\ ExtractionFailed(j)
        /\ extracted[j] >= 1
        /\ Len(rmtree_log[j]) = 1
        /\ rmtree_log[j][1].by = "handle_zip_file"
        /\ rmtree_log[j][1].ok
        /\ ~StagingOnDisk(j)

\* ---- two jobs at once

\* Job j created a staging directory that no rmtree call has removed.
Owned(j) ==
    /\ extraction_dir[j] # None
    /\ \A i \in 1..Len(rmtree_log[j]) : ~rmtree_log[j][i].ok

\* The members of job j's own archive extracted so far.
OwnExtracted(j) == {zip_file[j].members[i] : i \in 1..extracted[j]}

\* The terminal event and the result a run of job j on its own has for
\* the archive of SpecPar it was given and the failures of the environment
\* it met: mkdtemp, the file system while extracting, or rmtree in the
\* extraction handler end it with the fixed failure; a corrupt member with
\* the validation error that names the member; otherwise its one file is
\* no page, and the run ends with the warning.
AloneOutcome(j) ==
    LET z == zip_file[j]
        unexpected ==
            \/ "mkdtemp" \in faults[j]
            \/ "extract" \in faults[j]
            \/ \E i \in 1..Len(rmtree_log[j]) :
                   rmtree_log[j][i].by = "handle_zip_file" /\ ~rmtree_log[j][i].ok
    IN  IF unexpected
        THEN [event |-> "JOB_FAILED",
              message |-> <<"An unexpected server error occurred.">>,
              result |-> <<"An unexpected server error occurred. Please try again.">>]
        ELSE IF z.corrupt = 1
        THEN [event |-> "JOB_FAILED",
              message |-> <<"A validation error occurred: ",
                            "File is a corrupt or bad ZIP archive: ",
                            "Bad CRC-32 for file ">> \o MemberFilename(z.members[1]),
              result |-> <<"Error: ", "File is a corrupt or bad ZIP archive: ",
                           "Bad CRC-32 for file ">> \o MemberFilename(z.members[1])]
        ELSE [event |-> "JOB_WARNING", message |-> NoImagesMessage,
              result |-> NoImagesMessage]

\* C23: with two jobs running at once in any interleaving, the staging
\* directories the jobs hold are different directories; a job's directory
\* holds exactly the members of its own archive extracted so far, so no
\* other job wrote to it or removed it; a job removes and scans only its
\* own directory and reports only its own files; and the terminal event
\* and the result of each job are those of a run on its own.
C23_JobsIsolated ==
    \A j \in Jobs :
        /\ \A k \in Jobs \ {j} :
              (Owned(j) /\ Owned(k)) => extraction_dir[j] # extraction_dir[k]
        /\ Owned(j) =>
              /\ disk[extraction_dir[j]].exists
              /\ disk[extraction_dir[j]].files = OwnExtracted(j)
        /\ \A i \in 1..Len(rmtree_log[j]) : rmtree_log[j][i].dir = extraction_dir[j]
        /\ walked[j] \subseteq OwnExtracted(j)
        /\ \A i \in EventsNamed(j, {"FILE_EXTRACTED", "FILE_SKIPPED"}) :
              published[j][i].data.filename = MemberFilename(zip_file[j].members[1])
        /\ \A i \in EventsNamed(j, {"IMAGE_SCAN"}) :
              published[j][i].status = "SUCCESS" =>
                  published[j][i].data.skipped_count = 1
        /\ Returned(j) =>
              /\ LastEvent(j) = AloneOutcome(j).event
              /\ published[j][Len(published[j])].message = AloneOutcome(j).message
              /\ result[j] = AloneOutcome(j).result

\* C23 witness: both jobs have returned, one with the warning and one
\* with a failure, after each had created its directory before the other
\* extracted or failed to extract its member, under different names.
C23_Witness ==
    \E j, k \in Jobs :
        /\ j # k
        /\ Returned(j) /\ Returned(k)
        /\ LastEvent(j) = "JOB_WARNING"
        /\ LastEvent(k) = "JOB_FAILED"
        /\ extraction_dir[j] # None /\ extraction_dir[k] # None
        /\ extraction_dir[j] # extraction_dir[k]
        /\ zip_file[j].members # zip_file[k].members
        /\ published[j][4].event = "EXTRACTION"
        /\ published[k][4].event = "EXTRACTION"
        /\ published[j][4].timestamp < published[k][5].timestamp
        /\ published[k][4].timestamp < published[j][5].timestamp

\* ---- termination

AggregationReached(j) == LoopLeft(j) /\ pc[j] # "absent"

\* C25: once the recognition has returned, the run leaves the try block
\* only through JOB_COMPLETED (an exception foreign to the stage apart,
\* which the environment of the model may raise at its entry); the event's
\* data.final_text, the value run_job returns and the value of
\* aggregate_text_results for the page list and the outcome mapping of the
\* job are the same text.
C25_AggregationCompletes ==
    \A j \in Jobs :
        AggregationReached(j) =>
            /\ pc[j] \in {"aggregate", "complete", "except", "finally", "returned"}
            /\ "internal" \notin faults[j] =>
                  /\ pc[j] # "except"
                  /\ exc[j] = NoExc
                  /\ pc[j] = "complete" =>
                        final_text[j] = aggregate_text_results(image_paths[j], ocr_results[j])
                  /\ pc[j] \in {"finally", "returned"} =>
                        /\ LastEvent(j) = "JOB_COMPLETED"
                        /\ published[j][Len(published[j])].status = "SUCCESS"
                        /\ published[j][Len(published[j])].data.final_text = result[j]
                        /\ result[j] = aggregate_text_results(image_paths[j], ocr_results[j])

\* C25 witness: a run of two pages with texts has returned its document,
\* which is also in the JOB_COMPLETED event.
C25_Witness ==
    \E j \in Jobs :
        /\ Returned(j)
        /\ AggregationReached(j)
        /\ Len(image_paths[j]) = 2
        /\ EventsNamed(j, {"OCR_FAILED"}) = {}
        /\ LastEvent(j) = "JOB_COMPLETED"
        /\ result[j] # <<>>
        /\ published[j][Len(published[j])].data.final_text = result[j]

\* ---- aggregate_text_results, the joined text

\* The positions of job j's page list whose page has a text to contribute.
Contributors(j) ==
    SelectSeq([i \in 1..Len(image_paths[j]) |-> i], LAMBDA i : Contributes(j, i))

\* The text page number k of those contributes.
Contribution(j, k) == DictGet(ocr_results[j], image_paths[j][Contributors(j)[k]])

\* Where the k-th contribution starts in a text in which consecutive
\* contributions are two characters apart: the offset before it.
RECURSIVE OffsetOf(_, _)
OffsetOf(j, k) ==
    IF k = 1 THEN 0
    ELSE OffsetOf(j, k - 1) + Len(Contribution(j, k - 1)) + 2

\* C26: aggregate_text_results returns for every page list and every
\* outcome mapping, pages without an entry included; what it returns is
\* the contributions one after another, each two consecutive ones with
\* exactly the two line feeds of a blank line between them, nothing before
\* the first and nothing after the last; with no contribution (an empty
\* page list among the cases) it is the empty text.
C26_JoinedBySeparator ==
    \A j \in Jobs :
        /\ exc[j] = NoExc
        /\ pc[j] = "aggregate" => ENABLED Aggregate(j)
        /\ pc[j] = "complete" =>
              LET m == Len(Contributors(j))
                  t == final_text[j]
              IN  /\ m = 0 => t = <<>>
                  /\ m > 0 => Len(t) = OffsetOf(j, m) + Len(Contribution(j, m))
                  /\ \A k \in 1..m :
                        /\ Occurs(Contribution(j, k), t, OffsetOf(j, k) + 1)
                        /\ k < m =>
                              Occurs(<<"\n", "\n">>, t,
                                     OffsetOf(j, k) + Len(Contribution(j, k)) + 1)

\* C26 witness: aggregate_text_results has returned for a list of three
\* pages, one of them without an entry in the mapping, the two others
\* with texts.
C26_Witness ==
    \E j \in Jobs :
        /\ pc[j] = "complete"
        /\ Len(image_paths[j]) = 3
        /\ ~DictHas(ocr_results[j], image_paths[j][2])
        /\ Len(Contributors(j)) = 2
        /\ Len(final_text[j]) = 4

\* ---- the shape of an event

\* The events whose emit_event call passes a data argument.
EventsWithData ==
    {"FILE_EXTRACTED", "IMAGE_FOUND", "FILE_SKIPPED", "OCR_STARTED", "OCR_SUCCESS",
     "OCR_FAILED", "JOB_COMPLETED"}

\* The emit_event call behind event e passed a data argument.
SuppliesData(e) ==
    \/ e.event \in EventsWithData
    \/ e.event = "IMAGE_SCAN" /\ e.status = "SUCCESS"

\* C27: every event published for a job has exactly the six fields
\* timestamp, event, status, severity, message and data; its status is
\* RUNNING, SUCCESS, FAILED or COMPLETED and its severity DEBUG, INFO,
\* SUCCESS, WARNING or ERROR; its data is a mapping from names (never
\* None), with entries when the caller passed a data argument and empty
\* when it passed none.
C27_EventShape ==
    \A j \in Jobs : \A i \in 1..Len(published[j]) :
        LET e == published[j][i] IN
        /\ DOMAIN e = {"timestamp", "event", "status", "severity", "message", "data"}
        /\ e.status \in {"RUNNING", "SUCCESS", "FAILED", "COMPLETED"}
        /\ e.severity \in {"DEBUG", "INFO", "SUCCESS", "WARNING", "ERROR"}
        /\ e.data # NoData
        /\ \A key \in DOMAIN e.data : key \in STRING
        /\ DOMAIN e.data = {} <=> ~SuppliesData(e)

\* C27 witness: a run that ended with the warning has published events of
\* three statuses and four severities, with and without data.
C27_Witness ==
    \E j \in Jobs :
        LET all == {published[j][i] : i \in 1..Len(published[j])} IN
        /\ Returned(j)
        /\ {e.status : e \in all} = {"RUNNING", "SUCCESS", "COMPLETED"}
        /\ {e.severity : e \in all} = {"DEBUG", "INFO", "SUCCESS", "WARNING"}
        /\ \E e \in all : DOMAIN e.data = {}
        /\ \E e \in all : DOMAIN e.data = {"filename"}

\* ---- run_job without a streamer

\* C28: a run_job called without a streamer is either not yet entered or
\* has returned "Error: Server configuration issue."; it has published no
\* event, no message was sent and no time stamp taken, no stage has run
\* (nothing extracted, walked, recognised or aggregated, no exception, no
\* failure met), and no directory was created or removed.
C28_NoStreamerNoEffect ==
    \A j \in Jobs :
        (~streamer[j] /\ pc[j] # "absent") =>
            /\ pc[j] \in {"start", "returned"}
            /\ result[j] = (IF Returned(j) THEN <<"Error: Server configuration issue.">>
                            ELSE <<>>)
            /\ published[j] = <<>>
            /\ \A s \in Sids : received[s] = <<>>
            /\ emit_failed[j] = 0
            /\ clock = 0
            /\ extraction_dir[j] = None /\ extracted_dir[j] = None
            /\ \A d \in DirIds : ~disk[d].exists /\ disk[d].files = {}
            /\ rmtree_log[j] = <<>>
            /\ extracted[j] = 0 /\ walked[j] = {}
            /\ found_images[j] = <<>> /\ image_paths[j] = <<>> /\ image_count[j] = 0
            /\ capability_calls[j] = <<>> /\ ocr_results[j] = <<>>
            /\ final_text[j] = <<>>
            /\ exc[j] = NoExc /\ faults[j] = {}

\* C28 witness: run_job, called without a streamer for an archive with
\* pages, has returned.
C28_Witness ==
    \E j \in Jobs :
        /\ ~streamer[j]
        /\ Returned(j)
        /\ zip_file[j].is_zip
        /\ \E i \in 1..Len(zip_file[j].members) : IsSupported(zip_file[j].members[i].name)
        /\ result[j] = <<"Error: Server configuration issue.">>
        /\ published[j] = <<>>

\* ---- the terminal event and the cleanup

\* The run of job j reached the scan: handle_zip_file returned a directory.
ScanReached(j) == extracted_dir[j] # None

\* A terminal event was published for job j.
TerminalPublished(j) == EventsNamed(j, TerminalEvents) # {}

\* C29: in a run that reached the scan the staging directory is on disk,
\* with no rmtree call made, until the terminal event is published and
\* still when it has just been published (the run is at its finally
\* clause); the rmtree call of the cleanup comes only after the event.
C29_TerminalBeforeCleanup ==
    \A j \in Jobs :
        ScanReached(j) =>
            /\ ~TerminalPublished(j) => (StagingOnDisk(j) /\ rmtree_log[j] = <<>>)
            /\ pc[j] = "finally" =>
                  /\ TerminalPublished(j)
                  /\ StagingOnDisk(j)
                  /\ rmtree_log[j] = <<>>
            /\ rmtree_log[j] # <<>> => (TerminalPublished(j) /\ Returned(j))

\* C29 witness: JOB_FAILED was published for a run whose recognition could
\* not start, and the directory with the extracted pages is still on disk.
C29_Witness ==
    \E j \in Jobs :
        /\ ScanReached(j)
        /\ pc[j] = "finally"
        /\ LastEvent(j) = "JOB_FAILED"
        /\ "credentials" \in faults[j]
        /\ StagingOnDisk(j)
        /\ disk[extraction_dir[j]].files # {}

\* ---- JOB_FAILED as a validation error

\* Event e reports a validation error.
ReportsValidationError(e) ==
    /\ e.event = "JOB_FAILED"
    /\ e.message # <<>>
    /\ e.message[1] = "A validation error occurred: "

\* The texts of the two errors of a malformed or corrupt archive.
NotAnArchiveText == <<"Uploaded file is not a valid ZIP archive.">>

CorruptArchivePrefix == <<"File is a corrupt or bad ZIP archive: ">>

\* C30: a JOB_FAILED event reports a validation error only in a run that
\* failed in the validation (the file is no archive) or in the extraction
\* (the archive is corrupt), before any later stage was entered, and its
\* message is the fixed prefix and the text of that error; a run that
\* failed after handle_zip_file had returned is reported with the fixed
\* text of the unexpected error.
C30_ValidationErrorsOnly ==
    \A j \in Jobs : \A i \in EventsNamed(j, {"JOB_FAILED"}) :
        LET e == published[j][i]
            text == Tail(e.message)
        IN  /\ ReportsValidationError(e) =>
                  /\ ~ScanReached(j)
                  /\ EventsNamed(j, {"IMAGE_SCAN", "OCR_PIPELINE", "AGGREGATION"}) = {}
                  /\ faults[j] = {}
                  /\ IF ~zip_file[j].is_zip
                     THEN text = NotAnArchiveText /\ extraction_dir[j] = None
                     ELSE /\ zip_file[j].corrupt # 0
                          /\ Len(text) > 1
                          /\ SubSeq(text, 1, 1) = CorruptArchivePrefix
                          /\ extraction_dir[j] # None
            /\ ScanReached(j) =>
                  /\ ~ReportsValidationError(e)
                  /\ e.message = <<"An unexpected server error occurred.">>

\* C30 witness: a run whose archive has a corrupt second member has
\* returned after a JOB_FAILED event that reports the validation error
\* with the text of the BadZipFile.
C30_Witness ==
    \E j \in Jobs :
        /\ Returned(j)
        /\ zip_file[j].corrupt = 2
        /\ LastEvent(j) = "JOB_FAILED"
        /\ ReportsValidationError(published[j][Len(published[j])])
        /\ Len(published[j][Len(published[j])].message) > 2

\* ---- the order of the walk

\* The paths of the pages of job j's archive in its staging directory: what
\* any walk of the directory finds, as a set.
PagePaths(j) ==
    {FullPath(extracted_dir[j], zip_file[j].members[i]) :
        i \in {k \in 1..Len(zip_file[j].members) :
                   HasSupportedExtension(zip_file[j].members[k].name)}}

\* The orders in which a walk can collect the elements of S.
WalkOrders(S) ==
    {l \in [1..Cardinality(S) -> S] : \A a, b \in 1..Cardinality(S) : a # b => l[a] # l[b]}

\* The file names of the IMAGE_FOUND events of job j, in publication order:
\* the order in which the walk of this run met the pages.
FoundOrder(j) ==
    LET found == SelectSeq(published[j], LAMBDA e : e.event = "IMAGE_FOUND")
    IN  [k \in 1..Len(found) |-> found[k].data.filename]

\* C31: the list scan_for_images returned is the list it would have
\* returned had the walk met the same files in any other order; the pages
\* it is increasing and holds each page of the archive once, and it stays
\* the list of the run from then on; the pages go to the recognition in
\* the order of that list, and the final text is what
\* aggregate_text_results gives for that list and the outcomes of the
\* pages, so that neither depends on the order of the walk.
C31_WalkOrderIndependent ==
    \A j \in Jobs :
        /\ pc[j] = "scanned" =>
              /\ \A l \in WalkOrders(PagePaths(j)) : SortFound(l) = image_paths[j]
              /\ \A a, b \in 1..Len(image_paths[j]) :
                    a < b => StrLess(image_paths[j][a], image_paths[j][b])
        /\ pc[j] \in {"scanned", "init_client", "ocr_loop", "aggregate", "complete"} =>
              /\ Range(image_paths[j]) = PagePaths(j)
              /\ Len(image_paths[j]) = Cardinality(PagePaths(j))
              /\ \A k \in 1..Len(ocr_results[j]) : ocr_results[j][k][1] = image_paths[j][k]
              /\ InListOrder(capability_calls[j], image_paths[j])
        /\ pc[j] = "complete" =>
              final_text[j] = aggregate_text_results(image_paths[j], ocr_results[j])

\* C31 witness: the walk met three pages in another order than the one
\* of the list that was returned, and the run has its final text.
C31_Witness ==
    \E j \in Jobs :
        /\ pc[j] = "complete"
        /\ Len(image_paths[j]) = 3
        /\ FoundOrder(j) # [k \in 1..3 |-> Basename(image_paths[j][k])]
        /\ Len(SelectSeq(StoredOutcomes(j), HasText)) = 3
        /\ final_text[j] # <<>>

====
